---- MODULE Spec2Model ----
(***************************************************************************)
(* Nether fortress layout generator (fortress_generator.py) driven by the  *)
(* 48-bit LCG of random_source.py.                                         *)
(*                                                                         *)
(* Wide integers (the 48-bit LCG state, the 64-bit seed derivations) are   *)
(* little-endian sequences of eight bytes, i.e. the two's complement image *)
(* of the Python value masked to 64 bits, so that every product and sum    *)
(* stays inside TLC's integers while keeping the source's wrap-around.     *)
(***************************************************************************)
EXTENDS Integers, Sequences, FiniteSets, TLC

(***************************************************************************)
(* Bounds of the model                                                     *)
(***************************************************************************)
\* world seeds 0..MaxSeed are generated
MaxSeed == 9

(***************************************************************************)
(* 64-bit arithmetic on byte sequences                                     *)
(***************************************************************************)
\* F applied to the value of e: e is computed once, whatever F does with it
Let(e, F(_)) == CHOOSE r \in {F(v) : v \in {e}} : TRUE

NBytes == 8

\* two's complement image of a non-negative integer below 2^31
NatBytes(n) ==
    <<n % 256, (n \div 256) % 256, (n \div 65536) % 256, (n \div 16777216) % 256, 0, 0, 0, 0>>

RECURSIVE AddFrom(_, _, _, _)
AddFrom(a, b, i, c) ==
    IF i > NBytes THEN <<>>
    ELSE Let(a[i] + b[i] + c, LAMBDA s : <<s % 256>> \o AddFrom(a, b, i + 1, s \div 256))

\* (a + b) & ((1 << 64) - 1)
Add64(a0, b0) == Let(a0, LAMBDA a : Let(b0, LAMBDA b : AddFrom(a, b, 1, 0)))

\* ~a & ((1 << 64) - 1)
Not64(a0) ==
    Let(a0, LAMBDA a : <<255 - a[1], 255 - a[2], 255 - a[3], 255 - a[4],
                         255 - a[5], 255 - a[6], 255 - a[7], 255 - a[8]>>)

\* (-a) & ((1 << 64) - 1)
Neg64(a) == Add64(Not64(a), NatBytes(1))

\* two's complement image of a Python int of small magnitude
IntBytes(n) == IF n >= 0 THEN NatBytes(n) ELSE Neg64(NatBytes(-n))

RECURSIVE ColSum(_, _, _, _)
ColSum(a, b, k, i) ==
    IF i > k THEN 0 ELSE a[i] * b[k + 1 - i] + ColSum(a, b, k, i + 1)

RECURSIVE MulFrom(_, _, _, _)
MulFrom(a, b, k, c) ==
    IF k > NBytes THEN <<>>
    ELSE Let(ColSum(a, b, k, 1) + c,
             LAMBDA s : <<s % 256>> \o MulFrom(a, b, k + 1, s \div 256))

\* (a * b) & ((1 << 64) - 1)
Mul64(a0, b0) == Let(a0, LAMBDA a : Let(b0, LAMBDA b : MulFrom(a, b, 1, 0)))

RECURSIVE XorByte(_, _, _)
XorByte(p, q, n) ==
    IF n = 0 THEN 0
    ELSE (IF p % 2 = q % 2 THEN 0 ELSE 1) + 2 * XorByte(p \div 2, q \div 2, n - 1)

\* a ^ b
Xor64(a0, b0) ==
    Let(a0, LAMBDA a : Let(b0, LAMBDA b :
        <<XorByte(a[1], b[1], 8), XorByte(a[2], b[2], 8), XorByte(a[3], b[3], 8),
          XorByte(a[4], b[4], 8), XorByte(a[5], b[5], 8), XorByte(a[6], b[6], 8),
          XorByte(a[7], b[7], 8), XorByte(a[8], b[8], 8)>>))

(***************************************************************************)
(* LegacyRandomSource                                                      *)
(***************************************************************************)
\* 25214903917 = 0x5DEECE66D
MULTIPLIER == <<109, 230, 236, 222, 5, 0, 0, 0>>

INCREMENT == 11

\* v & MODULUS_MASK, MODULUS_MASK = (1 << 48) - 1
MODULUS_MASK(v0) == Let(v0, LAMBDA v : <<v[1], v[2], v[3], v[4], v[5], v[6], 0, 0>>)

\* set_seed: the new _seed
set_seed(seed) == MODULUS_MASK(Xor64(seed, MULTIPLIER))

\* the _seed after one call of next()
next_seed(s) == MODULUS_MASK(Add64(Mul64(s, MULTIPLIER), NatBytes(INCREMENT)))

\* _seed >> (48 - 31) as an integer
Top31(t) == (t[3] \div 2) + t[4] * 128 + t[5] * 32768 + t[6] * 8388608

\* _seed >> (48 - 32) as four bytes
Top32(t) == <<t[3], t[4], t[5], t[6]>>

\* (bound * bits) >> 31 for bound < 2^15, without leaving 32 bits
MulShr31(bound, bits) ==
    (bound * (bits \div 65536) + (bound * (bits % 65536)) \div 65536) \div 32768

\* (bound & (bound - 1)) == 0, bound > 0
IsPowerOfTwo(bound) == \E k \in 0..30 : bound = 2 ^ k

\* the modulo path returning the 31 bits drawn instead of bits % bound
next_int_unreduced(s, bound) ==
    IF bound <= 0 THEN <<0, s, TRUE>>
    ELSE
    Let(next_seed(s), LAMBDA t :
        Let(Top31(t), LAMBDA bits :
            IF IsPowerOfTwo(bound) THEN <<MulShr31(bound, bits), t, FALSE>>
            ELSE <<bits, t, FALSE>>))

\* the bound tested after the first draw
RECURSIVE next_int_late_check(_, _)
next_int_late_check(s, bound) ==
    Let(next_seed(s), LAMBDA t :
        Let(Top31(t), LAMBDA bits :
            IF bound <= 0 THEN <<0, t, TRUE>>
            ELSE IF IsPowerOfTwo(bound) THEN <<MulShr31(bound, bits), t, FALSE>>
            ELSE Let(bits % bound, LAMBDA val :
                     IF bits - val >= -(bound - 1) THEN <<val, t, FALSE>>
                     ELSE next_int_late_check(t, bound))))

\* next_int(bound): <<value, new _seed, FALSE>>, or <<0, _seed, TRUE>> when it raises
\* ValueError
RECURSIVE next_int(_, _)
next_int(s, bound) ==
    IF bound <= 0 THEN <<0, s, TRUE>>
    ELSE
    Let(next_seed(s), LAMBDA t :
        Let(Top31(t), LAMBDA bits :
            IF IsPowerOfTwo(bound) THEN <<MulShr31(bound, bits), t, FALSE>>
            ELSE Let(bits % bound, LAMBDA val :
                     \* bits - val + (bound - 1) >= 0 over unbounded integers
                     IF bits - val >= -(bound - 1) THEN <<val, t, FALSE>>
                     ELSE next_int(t, bound))))

\* _to_signed_int(low) widened to 64 bits
SignExtend32(w) ==
    <<w[1], w[2], w[3], w[4],
      IF w[4] >= 128 THEN 255 ELSE 0, IF w[4] >= 128 THEN 255 ELSE 0,
      IF w[4] >= 128 THEN 255 ELSE 0, IF w[4] >= 128 THEN 255 ELSE 0>>

\* high << 32
ShiftLeft32(w) == <<0, 0, 0, 0, w[1], w[2], w[3], w[4]>>

\* low added as the unsigned word next(32) returns
next_long_zero_extended(s) ==
    Let(next_seed(s), LAMBDA s1 :
        Let(next_seed(s1), LAMBDA s2 :
            <<Add64(ShiftLeft32(Top32(s1)), Top32(s2) \o <<0, 0, 0, 0>>), s2>>))

\* _to_signed_long of value & ((1 << 64) - 1): the Python int returned, as its sign and the
\* eight bytes of its magnitude
to_signed_long(value) ==
    IF value[8] >= 128
    THEN [negative |-> TRUE, magnitude |-> Neg64(value)]
    ELSE [negative |-> FALSE, magnitude |-> value]

\* next_long: <<result & ((1 << 64) - 1), new _seed>>
next_long(s) ==
    Let(next_seed(s), LAMBDA s1 :
        Let(next_seed(s1), LAMBDA s2 :
            <<Add64(ShiftLeft32(Top32(s1)), SignExtend32(Top32(s2))), s2>>))

\* WorldgenRandom.set_large_feature_seed: the new _seed
set_large_feature_seed(world_seed, x, z) ==
    Let(next_long(set_seed(IntBytes(world_seed))), LAMBDA m :
        Let(next_long(m[2]), LAMBDA n :
            Let(Mul64(IntBytes(x), m[1]), LAMBDA xm :
                Let(Mul64(IntBytes(z), n[1]), LAMBDA zn :
                    set_seed(Xor64(Xor64(xm, zn), IntBytes(world_seed)))))))

\* WorldgenRandom.set_large_feature_with_salt: the new _seed;
\* 341873128712 = 0x4F9939F508, 132897987541 = 0x1EF1565BD5
set_large_feature_with_salt(world_seed, x, z, salt) ==
    Let(Mul64(IntBytes(x), <<8, 245, 57, 153, 79, 0, 0, 0>>), LAMBDA xa :
        Let(Mul64(IntBytes(z), <<213, 91, 86, 241, 30, 0, 0, 0>>), LAMBDA zb :
            Let(Add64(Add64(xa, zb), IntBytes(world_seed)), LAMBDA sum :
                set_seed(Add64(sum, IntBytes(salt))))))

\* get_random_horizontal_direction
get_random_horizontal_direction(s) == next_int(s, 4)

(***************************************************************************)
(* Direction, BoundingBox                                                  *)
(***************************************************************************)
\* Direction(n) of the enum
Direction(n) == CASE n = 0 -> "NORTH" [] n = 1 -> "EAST" [] n = 2 -> "SOUTH" [] n = 3 -> "WEST"

BoundingBox(x0, y0, z0, x1, y1, z1) ==
    [min_x |-> x0, min_y |-> y0, min_z |-> z0, max_x |-> x1, max_y |-> y1, max_z |-> z1]

\* overlap tested exclusively: boxes that only share a boundary layer do not count
intersects_exclusive(self, other) ==
    /\ self.max_x > other.min_x /\ self.min_x < other.max_x
    /\ self.max_z > other.min_z /\ self.min_z < other.max_z
    /\ self.max_y > other.min_y /\ self.min_y < other.max_y

intersects(self, other) ==
    /\ self.max_x >= other.min_x /\ self.min_x <= other.max_x
    /\ self.max_z >= other.min_z /\ self.min_z <= other.max_z
    /\ self.max_y >= other.min_y /\ self.min_y <= other.max_y

orient_box(x, y, z, offset_x, offset_y, offset_z, width, height, depth, direction) ==
    CASE direction = "NORTH" ->
            BoundingBox(x + offset_x, y + offset_y, z - depth + 1 + offset_z,
                        x + width - 1 + offset_x, y + height - 1 + offset_y, z + offset_z)
      [] direction = "SOUTH" ->
            BoundingBox(x + offset_x, y + offset_y, z + offset_z,
                        x + width - 1 + offset_x, y + height - 1 + offset_y, z + depth - 1 + offset_z)
      [] direction = "WEST" ->
            BoundingBox(x - depth + 1 + offset_z, y + offset_y, z + offset_x,
                        x + offset_z, y + height - 1 + offset_y, z + width - 1 + offset_x)
      [] OTHER ->
            BoundingBox(x + offset_z, y + offset_y, z + offset_x,
                        x + depth - 1 + offset_z, y + height - 1 + offset_y, z + width - 1 + offset_x)

make_bounding_box(x, y, z, direction, width, height, depth) ==
    IF direction \in {"NORTH", "SOUTH"}
    THEN BoundingBox(x, y, z, x + width - 1, y + height - 1, z + depth - 1)
    ELSE BoundingBox(x, y, z, x + depth - 1, y + height - 1, z + width - 1)

(***************************************************************************)
(* PieceWeight, StructurePiece, the fixed tables                           *)
(***************************************************************************)
PieceWeight(piece_type, weight, max_place_count, allow_in_row) ==
    [piece_type |-> piece_type, weight |-> weight, max_place_count |-> max_place_count,
     allow_in_row |-> allow_in_row, place_count |-> 0]

do_place(pw, depth) == pw.max_place_count = 0 \/ pw.place_count < pw.max_place_count

is_valid(pw) == pw.max_place_count = 0 \/ pw.place_count < pw.max_place_count

StructurePiece(piece_type, bounding_box, direction, gen_depth) ==
    [piece_type |-> piece_type, bounding_box |-> bounding_box,
     direction |-> direction, gen_depth |-> gen_depth]

LOWEST_Y_POSITION == 10

MAX_DEPTH == 30

\* the start piece put at the lowest position
MAGIC_START_Y_lowest == LOWEST_Y_POSITION

MAGIC_START_Y == 64

BRIDGE_PIECE_WEIGHTS ==
    << PieceWeight("BridgeStraight", 30, 0, TRUE),
       PieceWeight("BridgeCrossing", 10, 4, FALSE),
       PieceWeight("RoomCrossing", 10, 4, FALSE),
       PieceWeight("StairsRoom", 10, 3, FALSE),
       PieceWeight("MonsterThrone", 5, 2, FALSE),
       PieceWeight("CastleEntrance", 5, 1, FALSE) >>

CASTLE_PIECE_WEIGHTS ==
    << PieceWeight("CastleSmallCorridorPiece", 25, 0, TRUE),
       PieceWeight("CastleSmallCorridorCrossingPiece", 15, 5, FALSE),
       PieceWeight("CastleSmallCorridorRightTurnPiece", 5, 10, FALSE),
       PieceWeight("CastleSmallCorridorLeftTurnPiece", 5, 10, FALSE),
       PieceWeight("CastleCorridorStairsPiece", 10, 3, TRUE),
       PieceWeight("CastleCorridorTBalconyPiece", 7, 2, FALSE),
       PieceWeight("CastleStalkRoom", 5, 2, FALSE) >>

\* (width, height, depth)
PIECE_DIMENSIONS(piece_type) ==
    CASE piece_type = "BridgeStraight" -> <<5, 10, 19>>
      [] piece_type = "BridgeCrossing" -> <<19, 10, 19>>
      [] piece_type = "RoomCrossing" -> <<7, 9, 7>>
      [] piece_type = "StairsRoom" -> <<7, 11, 7>>
      [] piece_type = "MonsterThrone" -> <<7, 8, 9>>
      [] piece_type = "CastleEntrance" -> <<13, 14, 13>>
      [] piece_type = "BridgeEndFiller" -> <<5, 10, 8>>
      [] piece_type = "CastleSmallCorridorPiece" -> <<5, 7, 5>>
      [] piece_type = "CastleSmallCorridorCrossingPiece" -> <<5, 7, 5>>
      [] piece_type = "CastleSmallCorridorRightTurnPiece" -> <<5, 7, 5>>
      [] piece_type = "CastleSmallCorridorLeftTurnPiece" -> <<5, 7, 5>>
      [] piece_type = "CastleCorridorStairsPiece" -> <<5, 14, 10>>
      [] piece_type = "CastleCorridorTBalconyPiece" -> <<9, 7, 9>>
      [] piece_type = "CastleStalkRoom" -> <<13, 14, 13>>
      [] piece_type = "StartPiece" -> <<19, 10, 19>>

\* (offset_x, offset_y, offset_z)
PIECE_OFFSETS(piece_type) ==
    CASE piece_type = "BridgeStraight" -> <<-1, -3, 0>>
      [] piece_type = "BridgeCrossing" -> <<-8, -3, 0>>
      [] piece_type = "RoomCrossing" -> <<-2, 0, 0>>
      [] piece_type = "StairsRoom" -> <<-2, 0, 0>>
      [] piece_type = "MonsterThrone" -> <<-2, 0, 0>>
      [] piece_type = "CastleEntrance" -> <<-5, -3, 0>>
      [] piece_type = "BridgeEndFiller" -> <<-1, -3, 0>>
      [] piece_type = "CastleSmallCorridorPiece" -> <<-1, 0, 0>>
      [] piece_type = "CastleSmallCorridorCrossingPiece" -> <<-1, 0, 0>>
      [] piece_type = "CastleSmallCorridorRightTurnPiece" -> <<-1, 0, 0>>
      [] piece_type = "CastleSmallCorridorLeftTurnPiece" -> <<-1, 0, 0>>
      [] piece_type = "CastleCorridorStairsPiece" -> <<-1, -7, 0>>
      [] piece_type = "CastleCorridorTBalconyPiece" -> <<-3, 0, 0>>
      [] piece_type = "CastleStalkRoom" -> <<-5, -3, 0>>
      [] piece_type = "StartPiece" -> <<-8, -3, 0>>

(***************************************************************************)
(* FortressGenerator: state                                                *)
(***************************************************************************)
VARIABLES
    world_seed,          \* self.world_seed
    chunk_x,             \* self.chunk_x
    chunk_z,             \* self.chunk_z
    random,              \* self.random._seed
    pieces,              \* self.pieces
    pending_children,    \* self.pending_children: references into pieces (1-based positions)
    bridge_weights,      \* self.bridge_weights
    castle_weights,      \* self.castle_weights
    previous_piece,      \* self.previous_piece: the piece_type of the referenced entry (one
                         \* entry per type, so "pw == self.previous_piece" compares types),
                         \* or "None"
    start_bounding_box,  \* self.start_bounding_box: <<box>>, or None
    pc,                  \* position of the run inside generate()
    parent,              \* position in pieces of the piece whose children are being spawned
    calls,               \* the _generate_child_* calls of the parent not made yet
    request,             \* arguments of the running _generate_and_add_piece call
    total_weight,        \* local of _generate_piece
    attempts             \* local of _generate_piece

VARIABLES
    class_bridge_weights,  \* FortressGenerator.BRIDGE_PIECE_WEIGHTS, the class attribute
    class_castle_weights   \* FortressGenerator.CASTLE_PIECE_WEIGHTS, the class attribute

class_vars == <<class_bridge_weights, class_castle_weights>>

VARIABLES
    fortress_index       \* main.find_quad_crossings_for_seed: i of "for i, ... in enumerate"

caller_vars == <<fortress_index>>

VARIABLES
    rng_seed,            \* _seed of a LegacyRandomSource used on its own
    rng_call,            \* its last call if a next_int: the bound passed, the value returned,
                         \* raised or not
    rng_calls,           \* the number of calls made on it
    rng_long             \* the value returned if its last call is a next_long

rng_vars == <<rng_seed, rng_call, rng_calls, rng_long>>

VARIABLES
    locator_random,      \* FortressLocator: self.random._seed
    locator_pc,          \* "idle", or "scan" inside find_fortresses_in_range
    center_chunk_x,      \* arguments of the running find_fortresses_in_range call
    center_chunk_z,
    radius_chunks,
    region_x,            \* loop variables of find_fortresses_in_range
    region_z,
    fortresses,          \* local of find_fortresses_in_range
    returned,            \* the last call of the locator that returned: name, arguments, value
    locator_calls        \* the number of calls of the locator that returned

locator_vars == <<locator_random, locator_pc, center_chunk_x, center_chunk_z, radius_chunks,
                  region_x, region_z, fortresses, returned, locator_calls>>

VARIABLES
    detector_objects,    \* the StructurePiece objects in being; an object is named by its
                         \* position here, that stands for id(object)
    crossings,           \* CrossingDetector: self.crossings, a list of objects
    quad_crossings,      \* local of find_quad_crossings
    detector_pc,         \* "none", "find", "corners" inside the corner loop, or "returned"
    corner_index         \* i of "for i, (center1, crossing1) in enumerate(crossing_centers)"

detector_vars == <<detector_objects, crossings, quad_crossings, detector_pc, corner_index>>

generator_vars == <<world_seed, chunk_x, chunk_z, random, pieces, pending_children,
                    bridge_weights, castle_weights, previous_piece, start_bounding_box, pc,
                    parent, calls, request, total_weight, attempts>>

vars == <<generator_vars, class_vars, caller_vars, rng_vars, locator_vars, detector_vars>>

\* chunks at which a generator is constructed
ChunkCoords == {<<0, 0>>, <<-3, 7>>}

\* an Optional value is None or the one-element sequence of the value
None == <<>>

\* no call made yet
NoCall == [bound |-> 1, value |-> 0, raised |-> FALSE]

\* nothing returned yet
NoReturn == [call |-> "none", args |-> <<>>, value |-> <<>>]

\* FortressLocator(world_seed), not called
LocatorIdle ==
    /\ locator_random = set_seed(IntBytes(0))
    /\ locator_pc = "idle"
    /\ center_chunk_x = 0
    /\ center_chunk_z = 0
    /\ radius_chunks = 0
    /\ region_x = 0
    /\ region_z = 0
    /\ fortresses = <<>>
    /\ returned = NoReturn
    /\ locator_calls = 0

\* LegacyRandomSource(), not called
RngIdle ==
    /\ rng_seed = set_seed(IntBytes(0))
    /\ rng_call = NoCall
    /\ rng_calls = 0
    /\ rng_long = None

\* no CrossingDetector constructed
DetectorIdle ==
    /\ detector_objects = <<>>
    /\ crossings = <<>>
    /\ quad_crossings = <<>>
    /\ detector_pc = "none"
    /\ corner_index = 0

NoRequest == [x |-> 0, y |-> 0, z |-> 0, direction |-> "NORTH", depth |-> 0, is_castle |-> FALSE]

(***************************************************************************)
(* FortressGenerator: helpers                                              *)
(***************************************************************************)
ChildCall(side, offset_i, offset_j, is_castle) ==
    [side |-> side, offset_i |-> offset_i, offset_j |-> offset_j,
     is_castle |-> is_castle, draw |-> FALSE]

\* a call whose is_castle argument is self.random.next_int(8) > 0
DrawnChildCall(side, offset_i, offset_j) ==
    [side |-> side, offset_i |-> offset_i, offset_j |-> offset_j,
     is_castle |-> FALSE, draw |-> TRUE]

\* _add_children and the _add_children_for_* methods: the calls made, in order
add_children(piece) ==
    LET t == piece.piece_type
    IN  CASE t \in {"StartPiece", "BridgeCrossing"} ->
                << ChildCall("forward", 8, 3, FALSE), ChildCall("left", 3, 8, FALSE),
                   ChildCall("right", 3, 8, FALSE) >>
          [] t = "BridgeStraight" -> << ChildCall("forward", 1, 3, FALSE) >>
          [] t = "RoomCrossing" ->
                << ChildCall("forward", 2, 0, FALSE), ChildCall("left", 0, 2, FALSE),
                   ChildCall("right", 0, 2, FALSE) >>
          [] t = "StairsRoom" -> << ChildCall("right", 6, 2, FALSE) >>
          [] t = "CastleEntrance" -> << ChildCall("forward", 5, 3, TRUE) >>
          [] t = "CastleSmallCorridorPiece" -> << ChildCall("forward", 1, 0, TRUE) >>
          [] t = "CastleSmallCorridorCrossingPiece" ->
                << ChildCall("forward", 1, 0, TRUE), ChildCall("left", 0, 1, TRUE),
                   ChildCall("right", 0, 1, TRUE) >>
          [] t = "CastleSmallCorridorRightTurnPiece" -> << ChildCall("right", 0, 1, TRUE) >>
          [] t = "CastleSmallCorridorLeftTurnPiece" -> << ChildCall("left", 0, 1, TRUE) >>
          [] t = "CastleCorridorStairsPiece" -> << ChildCall("forward", 1, 0, TRUE) >>
          [] t = "CastleCorridorTBalconyPiece" ->
                LET i == IF piece.direction = "WEST" \/ piece.direction = "NORTH" THEN 5 ELSE 1
                IN  << DrawnChildCall("left", 0, i), DrawnChildCall("right", 0, i) >>
          [] t = "CastleStalkRoom" ->
                << ChildCall("forward", 5, 3, TRUE), ChildCall("forward", 5, 11, TRUE) >>
          [] OTHER -> << >>

\* the depth incremented by the caller as well as by _generate_and_add_piece
generate_child_forward_deeper(piece, offset_i, offset_j, is_castle) ==
    LET direction == piece.direction
        box == piece.bounding_box
        y == box.min_y + offset_j
        xz == CASE direction = "NORTH" -> <<box.min_x + offset_i, box.min_z - 1>>
                [] direction = "SOUTH" -> <<box.min_x + offset_i, box.max_z + 1>>
                [] direction = "WEST" -> <<box.min_x - 1, box.min_z + offset_i>>
                [] OTHER -> <<box.max_x + 1, box.min_z + offset_i>>
    IN  [x |-> xz[1], y |-> y, z |-> xz[2], direction |-> direction,
         depth |-> piece.gen_depth + 1, is_castle |-> is_castle]

\* _generate_child_forward: the arguments passed to _generate_and_add_piece
generate_child_forward(piece, offset_i, offset_j, is_castle) ==
    LET direction == piece.direction
        box == piece.bounding_box
        y == box.min_y + offset_j
        xz == CASE direction = "NORTH" -> <<box.min_x + offset_i, box.min_z - 1>>
                [] direction = "SOUTH" -> <<box.min_x + offset_i, box.max_z + 1>>
                [] direction = "WEST" -> <<box.min_x - 1, box.min_z + offset_i>>
                [] OTHER -> <<box.max_x + 1, box.min_z + offset_i>>
    IN  [x |-> xz[1], y |-> y, z |-> xz[2], direction |-> direction,
         depth |-> piece.gen_depth, is_castle |-> is_castle]

\* _generate_child_left
generate_child_left(piece, offset_i, offset_j, is_castle) ==
    LET direction == piece.direction
        box == piece.bounding_box
        y == box.min_y + offset_i
    IN  IF direction \in {"NORTH", "SOUTH"}
        THEN [x |-> box.min_x - 1, y |-> y, z |-> box.min_z + offset_j, direction |-> "WEST",
              depth |-> piece.gen_depth, is_castle |-> is_castle]
        ELSE [x |-> box.min_x + offset_j, y |-> y, z |-> box.min_z - 1, direction |-> "NORTH",
              depth |-> piece.gen_depth, is_castle |-> is_castle]

\* the origin on the last layer of the parent's box instead of one block beyond it
generate_child_right_inside(piece, offset_i, offset_j, is_castle) ==
    LET direction == piece.direction
        box == piece.bounding_box
        y == box.min_y + offset_i
    IN  IF direction \in {"NORTH", "SOUTH"}
        THEN [x |-> box.max_x, y |-> y, z |-> box.min_z + offset_j, direction |-> "EAST",
              depth |-> piece.gen_depth, is_castle |-> is_castle]
        ELSE [x |-> box.min_x + offset_j, y |-> y, z |-> box.max_z, direction |-> "SOUTH",
              depth |-> piece.gen_depth, is_castle |-> is_castle]

\* _generate_child_right
generate_child_right(piece, offset_i, offset_j, is_castle) ==
    LET direction == piece.direction
        box == piece.bounding_box
        y == box.min_y + offset_i
    IN  IF direction \in {"NORTH", "SOUTH"}
        THEN [x |-> box.max_x + 1, y |-> y, z |-> box.min_z + offset_j, direction |-> "EAST",
              depth |-> piece.gen_depth, is_castle |-> is_castle]
        ELSE [x |-> box.min_x + offset_j, y |-> y, z |-> box.max_z + 1, direction |-> "SOUTH",
              depth |-> piece.gen_depth, is_castle |-> is_castle]

abs(n) == IF n >= 0 THEN n ELSE -n

\* the distance limit tested on x only
OutOfRange_x_only(x, z) ==
    /\ start_bounding_box # None
    /\ abs(x - start_bounding_box[1].min_x) > 112

\* the distance limit tested against the box extent allowance instead of 112
OutOfRange_wide(x, z) ==
    /\ start_bounding_box # None
    /\ \/ abs(x - start_bounding_box[1].min_x) > 112 + 18
       \/ abs(z - start_bounding_box[1].min_z) > 112 + 18

\* the distance limit at the head of _generate_and_add_piece: TRUE when the call returns None
OutOfRange(x, z) ==
    /\ start_bounding_box # None
    /\ \/ abs(x - start_bounding_box[1].min_x) > 112
       \/ abs(z - start_bounding_box[1].min_z) > 112

RECURSIVE SumWeights(_, _)
SumWeights(weights, i) ==
    IF i > Len(weights) THEN 0 ELSE weights[i].weight + SumWeights(weights, i + 1)

\* the total returned whether or not an entry with a count limit is left
update_piece_weight_total(weights) == SumWeights(weights, 1)

\* _update_piece_weight
update_piece_weight(weights) ==
    LET has_valid == \E i \in 1..Len(weights) :
                        /\ weights[i].max_place_count > 0
                        /\ weights[i].place_count < weights[i].max_place_count
    IN  IF has_valid THEN SumWeights(weights, 1) ELSE -1

\* the walk "for pw in weights: target -= pw.weight; if target < 0": position of pw, 0 if none
RECURSIVE SelectWeight(_, _, _)
SelectWeight(weights, target, i) ==
    IF i > Len(weights) THEN 0
    ELSE IF target - weights[i].weight < 0 THEN i
    ELSE SelectWeight(weights, target - weights[i].weight, i + 1)

\* _is_ok_box
is_ok_box(box) == box.min_y > LOWEST_Y_POSITION

\* _find_collision
find_collision(box) == \E i \in 1..Len(pieces) : intersects(pieces[i].bounding_box, box)

\* _create_piece: <<piece>>, or None (both tables have an entry for every piece type, so
\* the "not dims or not offsets" return is never taken)
create_piece(piece_type, x, y, z, direction, depth) ==
    LET dims == PIECE_DIMENSIONS(piece_type)
        offsets == PIECE_OFFSETS(piece_type)
        box == orient_box(x, y, z, offsets[1], offsets[2], offsets[3],
                          dims[1], dims[2], dims[3], direction)
    IN  IF ~is_ok_box(box) THEN None
        ELSE IF find_collision(box) THEN None
        ELSE <<StructurePiece(piece_type, box, direction, depth)>>

\* _create_end_filler: <<piece>>, or None
create_end_filler(x, y, z, direction, depth) ==
    LET box == orient_box(x, y, z, -1, -3, 0, 5, 10, 8, direction)
    IN  IF ~is_ok_box(box) THEN None
        ELSE IF find_collision(box) THEN None
        ELSE <<StructurePiece("BridgeEndFiller", box, direction, depth)>>

\* weights.remove(pw)
RECURSIVE ListRemove(_, _)
ListRemove(list, e) ==
    IF list = <<>> THEN <<>>
    ELSE IF Head(list) = e THEN Tail(list)
    ELSE <<Head(list)>> \o ListRemove(Tail(list), e)

\* the head removed whatever idx is
ListPop_first(list, idx) == Tail(list)

\* list.pop(idx), idx 0-based: the list left
ListPop(list, idx) == [k \in 1..(Len(list) - 1) |-> IF k <= idx THEN list[k] ELSE list[k + 1]]

\* the piece placed without counting it
PlaceWeight_no_count(weights, i) == weights

\* the count incremented, the exhausted entry left in the list
PlaceWeight_no_remove(weights, i) == [weights EXCEPT ![i].place_count = @ + 1]

\* "pw.place_count += 1; if not pw.is_valid(): weights.remove(pw)" on the list holding pw at i
PlaceWeight(weights, i) ==
    LET pw == [weights[i] EXCEPT !.place_count = @ + 1]
        counted == [weights EXCEPT ![i] = pw]
    IN  IF ~is_valid(pw) THEN ListRemove(counted, pw) ELSE counted

\* the list comprehensions of __init__: new PieceWeight objects, place_count = 0
new_weights(table) ==
    [k \in 1..Len(table) |->
        PieceWeight(table[k].piece_type, table[k].weight, table[k].max_place_count,
                    table[k].allow_in_row)]

\* the generator's list is the class attribute itself
class_list_aliased(attribute, own_list) == own_list

\* the class attribute once the generator's list became own_list: __init__ built that list
\* and its entries anew, so the class attribute is another object and keeps its value
class_list(attribute, own_list) == attribute

\* where a finished _generate_and_add_piece call returns to
AfterCall == IF calls = <<>> THEN "pop" ELSE "child"

(***************************************************************************)
(* FortressGenerator: operations                                           *)
(***************************************************************************)
\* the state FortressGenerator(world_seed, chunk_x, chunk_z) constructs
Init ==
    /\ world_seed \in 0..MaxSeed
    /\ \E c \in ChunkCoords : chunk_x = c[1] /\ chunk_z = c[2]
    /\ random = set_seed(IntBytes(0))
    /\ pieces = <<>>
    /\ pending_children = <<>>
    /\ class_bridge_weights = BRIDGE_PIECE_WEIGHTS
    /\ class_castle_weights = CASTLE_PIECE_WEIGHTS
    /\ bridge_weights = new_weights(class_bridge_weights)
    /\ castle_weights = new_weights(class_castle_weights)
    /\ previous_piece = "None"
    /\ start_bounding_box = None
    /\ pc = "generate"
    /\ parent = 0
    /\ calls = <<>>
    /\ request = NoRequest
    /\ total_weight = 0
    /\ attempts = 0
    /\ fortress_index = 0
    /\ RngIdle
    /\ LocatorIdle
    /\ DetectorIdle

\* generate(), up to the first child call of the start piece
GenerateStart ==
    /\ pc = "generate"
    /\ \E drawn \in {get_random_horizontal_direction(
                           set_large_feature_seed(world_seed, chunk_x, chunk_z))} :
       LET start_x == chunk_x * 16 + 2
           start_z == chunk_z * 16 + 2
           start_direction == Direction(drawn[1])
           start_box == make_bounding_box(start_x, MAGIC_START_Y, start_z,
                                          start_direction, 19, 10, 19)
           start_piece == StructurePiece("StartPiece", start_box, start_direction, 0)
       IN  /\ random' = drawn[2]
           /\ pieces' = Append(pieces, start_piece)
           /\ start_bounding_box' = <<start_box>>
           /\ parent' = Len(pieces) + 1
           /\ calls' = add_children(start_piece)
    /\ pc' = "child"
    /\ UNCHANGED <<world_seed, chunk_x, chunk_z, pending_children, bridge_weights,
                   castle_weights, previous_piece, request, total_weight, attempts>>
    /\ UNCHANGED <<class_vars, caller_vars, rng_vars, locator_vars, detector_vars>>

\* the loop left while one piece is still pending
pending_loop_condition_gt1 == Len(pending_children) > 1

\* "while self.pending_children"
pending_loop_condition == pending_children # <<>>

\* one iteration of "while self.pending_children", up to the first child call of the piece
PopPending ==
    /\ pc = "pop"
    /\ pending_loop_condition
    /\ \E drawn \in {next_int(random, Len(pending_children))} :
       LET idx == drawn[1]
           piece == pending_children[idx + 1]
       IN  /\ random' = drawn[2]
           /\ IF drawn[3]
              THEN /\ pc' = "ValueError"
                   /\ UNCHANGED <<pending_children, parent, calls>>
              ELSE /\ pending_children' = ListPop(pending_children, idx)
                   /\ parent' = piece
                   /\ calls' = add_children(pieces[piece])
                   /\ pc' = IF add_children(pieces[piece]) = <<>> THEN "pop" ELSE "child"
    /\ UNCHANGED <<world_seed, chunk_x, chunk_z, pieces, bridge_weights, castle_weights,
                   previous_piece, start_bounding_box, request, total_weight, attempts>>
    /\ UNCHANGED <<class_vars, caller_vars, rng_vars, locator_vars, detector_vars>>

\* the loop of generate() ends: return self.pieces
GenerateReturn ==
    /\ pc = "pop"
    /\ ~pending_loop_condition
    /\ pc' = "done"
    /\ UNCHANGED <<world_seed, chunk_x, chunk_z, random, pieces, pending_children,
                   bridge_weights, castle_weights, previous_piece, start_bounding_box,
                   parent, calls, request, total_weight, attempts>>
    /\ UNCHANGED <<class_vars, caller_vars, rng_vars, locator_vars, detector_vars>>

\* next_int(8) drawn only for a request the distance limit lets through
GenerateChild_draw_in_range ==
    /\ pc = "child"
    /\ \E drawn \in {IF /\ Head(calls).draw
                          /\ ~OutOfRange(
                                generate_child_left(pieces[parent], Head(calls).offset_i,
                                                    Head(calls).offset_j, FALSE).x,
                                generate_child_left(pieces[parent], Head(calls).offset_i,
                                                    Head(calls).offset_j, FALSE).z)
                       THEN next_int(random, 8) ELSE <<0, random, FALSE>>} :
       LET call == Head(calls)
           is_castle == IF call.draw THEN drawn[1] > 0 ELSE call.is_castle
           piece == pieces[parent]
       IN  /\ random' = drawn[2]
           /\ request' =
                CASE call.side = "forward" ->
                        generate_child_forward(piece, call.offset_i, call.offset_j, is_castle)
                  [] call.side = "left" ->
                        generate_child_left(piece, call.offset_i, call.offset_j, is_castle)
                  [] call.side = "right" ->
                        generate_child_right(piece, call.offset_i, call.offset_j, is_castle)
    /\ calls' = Tail(calls)
    /\ pc' = "request"
    /\ UNCHANGED <<world_seed, chunk_x, chunk_z, pieces, pending_children, bridge_weights,
                   castle_weights, previous_piece, start_bounding_box, parent,
                   total_weight, attempts>>
    /\ UNCHANGED <<class_vars, caller_vars, rng_vars, locator_vars, detector_vars>>

\* the next _generate_child_forward/left/right call of the parent, up to its call of
\* _generate_and_add_piece (argument evaluation included)
GenerateChild ==
    /\ pc = "child"
    /\ \E drawn \in {IF Head(calls).draw THEN next_int(random, 8) ELSE <<0, random, FALSE>>} :
       LET call == Head(calls)
           is_castle == IF call.draw THEN drawn[1] > 0 ELSE call.is_castle
           piece == pieces[parent]
       IN  /\ random' = drawn[2]
           /\ request' =
                CASE call.side = "forward" ->
                        generate_child_forward(piece, call.offset_i, call.offset_j, is_castle)
                  [] call.side = "left" ->
                        generate_child_left(piece, call.offset_i, call.offset_j, is_castle)
                  [] call.side = "right" ->
                        generate_child_right(piece, call.offset_i, call.offset_j, is_castle)
    /\ calls' = Tail(calls)
    /\ pc' = "request"
    /\ UNCHANGED <<world_seed, chunk_x, chunk_z, pieces, pending_children, bridge_weights,
                   castle_weights, previous_piece, start_bounding_box, parent,
                   total_weight, attempts>>
    /\ UNCHANGED <<class_vars, caller_vars, rng_vars, locator_vars, detector_vars>>

\* the list _generate_and_add_piece selects
Weights == IF request.is_castle THEN castle_weights ELSE bridge_weights

\* _generate_and_add_piece, from its entry to the head of the attempt loop of _generate_piece
GenerateAndAddPiece ==
    /\ pc = "request"
    /\ IF OutOfRange(request.x, request.z)
       THEN /\ pc' = AfterCall
            /\ UNCHANGED <<request, total_weight, attempts>>
       ELSE /\ request' = [request EXCEPT !.depth = @ + 1]
            /\ total_weight' = update_piece_weight(Weights)
            /\ attempts' = 0
            /\ pc' = "loop"
    /\ UNCHANGED <<world_seed, chunk_x, chunk_z, random, pieces, pending_children,
                   bridge_weights, castle_weights, previous_piece, start_bounding_box,
                   parent, calls>>
    /\ UNCHANGED <<class_vars, caller_vars, rng_vars, locator_vars, detector_vars>>

\* the depth cap left out
can_place_any_depth == total_weight > 0

\* the test of total_weight left out
can_place_any_total == request.depth <= MAX_DEPTH

can_place == total_weight > 0 /\ request.depth <= MAX_DEPTH

\* a single attempt per request
attempt_loop_condition_once == attempts < 1 /\ can_place

\* "while attempts < 5 and can_place"
attempt_loop_condition == attempts < 5 /\ can_place

\* a BridgeEndFiller appended to pieces only
AddPiece_filler_not_pending(piece) ==
    /\ pieces' = Append(pieces, piece)
    /\ pending_children' = IF piece.piece_type = "BridgeEndFiller" THEN pending_children
                            ELSE Append(pending_children, Len(pieces) + 1)

\* "self.pieces.append(piece); self.pending_children.append(piece)" of _generate_and_add_piece
AddPiece(piece) ==
    /\ pieces' = Append(pieces, piece)
    /\ pending_children' = Append(pending_children, Len(pieces) + 1)

\* the repeat rule left out
repeats_previous_never(pw) == FALSE

\* "pw == self.previous_piece and not pw.allow_in_row"
repeats_previous(pw) == pw.piece_type = previous_piece /\ ~pw.allow_in_row

\* self.previous_piece set before _create_piece has returned a piece
Attempt_tracked_early ==
    /\ pc = "loop"
    /\ attempt_loop_condition
    /\ attempts' = attempts + 1
    /\ \E drawn \in {next_int(random, total_weight)} :
       \E i \in {IF drawn[3] THEN 0 ELSE SelectWeight(Weights, drawn[1], 1)} :
       LET pw == Weights[i]
           piece == create_piece(pw.piece_type, request.x, request.y, request.z,
                                 request.direction, request.depth)
           placed == /\ i # 0
                     /\ do_place(pw, request.depth)
                     /\ ~repeats_previous(pw)
                     /\ piece # None
       IN  /\ random' = drawn[2]
           /\ IF placed
              THEN /\ IF request.is_castle
                      THEN /\ castle_weights' = PlaceWeight(castle_weights, i)
                           /\ UNCHANGED bridge_weights
                      ELSE /\ bridge_weights' = PlaceWeight(bridge_weights, i)
                           /\ UNCHANGED castle_weights
                   /\ previous_piece' = pw.piece_type
                   /\ AddPiece(piece[1])
                   /\ pc' = AfterCall
              ELSE /\ pc' = IF drawn[3] THEN "ValueError" ELSE "loop"
                   /\ previous_piece' =
                         IF i # 0 /\ do_place(pw, request.depth) /\ ~repeats_previous(pw)
                         THEN pw.piece_type ELSE previous_piece
                   /\ UNCHANGED <<pieces, pending_children, bridge_weights, castle_weights>>
    /\ class_bridge_weights' = class_list(class_bridge_weights, bridge_weights')
    /\ class_castle_weights' = class_list(class_castle_weights, castle_weights')
    /\ UNCHANGED <<world_seed, chunk_x, chunk_z, start_bounding_box, parent, calls, request,
                   total_weight>>
    /\ UNCHANGED <<caller_vars, rng_vars, locator_vars, detector_vars>>

\* one iteration of "while attempts < 5 and can_place" of _generate_piece; a placed piece
\* returns through _generate_and_add_piece
Attempt ==
    /\ pc = "loop"
    /\ attempt_loop_condition
    /\ attempts' = attempts + 1
    /\ \E drawn \in {next_int(random, total_weight)} :
       \E i \in {IF drawn[3] THEN 0 ELSE SelectWeight(Weights, drawn[1], 1)} :
       LET pw == Weights[i]
           piece == create_piece(pw.piece_type, request.x, request.y, request.z,
                                 request.direction, request.depth)
           placed == /\ i # 0
                     /\ do_place(pw, request.depth)
                     /\ ~repeats_previous(pw)
                     /\ piece # None
       IN  /\ random' = drawn[2]
           /\ IF placed
              THEN /\ IF request.is_castle
                      THEN /\ castle_weights' = PlaceWeight(castle_weights, i)
                           /\ UNCHANGED bridge_weights
                      ELSE /\ bridge_weights' = PlaceWeight(bridge_weights, i)
                           /\ UNCHANGED castle_weights
                   /\ previous_piece' = pw.piece_type
                   /\ AddPiece(piece[1])
                   /\ pc' = AfterCall
              ELSE /\ pc' = IF drawn[3] THEN "ValueError" ELSE "loop"
                   /\ UNCHANGED <<pieces, pending_children, bridge_weights, castle_weights,
                                  previous_piece>>
    /\ class_bridge_weights' = class_list(class_bridge_weights, bridge_weights')
    /\ class_castle_weights' = class_list(class_castle_weights, castle_weights')
    /\ UNCHANGED <<world_seed, chunk_x, chunk_z, start_bounding_box, parent, calls, request,
                   total_weight>>
    /\ UNCHANGED <<caller_vars, rng_vars, locator_vars, detector_vars>>

\* the attempt loop is over: "return self._create_end_filler(...)", through
\* _generate_and_add_piece
CreateEndFiller ==
    /\ pc = "loop"
    /\ ~attempt_loop_condition
    /\ LET piece == create_end_filler(request.x, request.y, request.z,
                                      request.direction, request.depth)
       IN  IF piece # None
           THEN AddPiece(piece[1])
           ELSE UNCHANGED <<pieces, pending_children>>
    /\ pc' = AfterCall
    /\ UNCHANGED <<world_seed, chunk_x, chunk_z, random, bridge_weights, castle_weights,
                   previous_piece, start_bounding_box, parent, calls, request,
                   total_weight, attempts>>
    /\ UNCHANGED <<class_vars, caller_vars, rng_vars, locator_vars, detector_vars>>

Next ==
    \/ GenerateStart
    \/ PopPending
    \/ GenerateReturn
    \/ GenerateChild
    \/ GenerateAndAddPiece
    \/ Attempt
    \/ CreateEndFiller

Spec == Init /\ [][Next]_vars

\* generate() is a sequential loop: a step that can be taken is taken
FairSpec == Spec /\ WF_vars(Next)

(***************************************************************************)
(* LegacyRandomSource on its own                                           *)
(***************************************************************************)
MaxRngSeed == 7

MaxRngCalls == 2

\* the seeds passed to LegacyRandomSource(seed); after the last two the first next(31) is
\* 2^31 - 1 and 2^31 - 3
RngSeeds ==
    {IntBytes(n) : n \in 0..MaxRngSeed}
        \cup {<<75, 138, 186, 181, 245, 147, 0, 0>>, <<75, 138, 46, 195, 193, 36, 0, 0>>}

\* the bounds passed to next_int
RngBounds == {-1, 0, 1, 4, 5, 8, 23, 100}

\* no FortressGenerator constructed
NoGenerator ==
    /\ chunk_x = 0
    /\ chunk_z = 0
    /\ random = set_seed(IntBytes(0))
    /\ pieces = <<>>
    /\ pending_children = <<>>
    /\ class_bridge_weights = BRIDGE_PIECE_WEIGHTS
    /\ class_castle_weights = CASTLE_PIECE_WEIGHTS
    /\ bridge_weights = <<>>
    /\ castle_weights = <<>>
    /\ previous_piece = "None"
    /\ start_bounding_box = None
    /\ pc = "none"
    /\ parent = 0
    /\ calls = <<>>
    /\ request = NoRequest
    /\ total_weight = 0
    /\ attempts = 0
    /\ fortress_index = 0

\* LegacyRandomSource(seed)
RngInit ==
    /\ world_seed = 0
    /\ NoGenerator
    /\ \E seed \in RngSeeds : rng_seed = set_seed(seed)
    /\ rng_call = NoCall
    /\ rng_calls = 0
    /\ rng_long = None
    /\ LocatorIdle
    /\ DetectorIdle

\* next_int(bound)
RngNextInt ==
    /\ rng_calls < MaxRngCalls
    /\ \E bound \in RngBounds :
       \E drawn \in {next_int(rng_seed, bound)} :
          /\ rng_seed' = drawn[2]
          /\ rng_call' = [bound |-> bound, value |-> drawn[1], raised |-> drawn[3]]
    /\ rng_calls' = rng_calls + 1
    /\ rng_long' = None
    /\ UNCHANGED <<generator_vars, class_vars, caller_vars, locator_vars, detector_vars>>

\* next_long()
RngNextLong ==
    /\ rng_calls < MaxRngCalls
    /\ \E drawn \in {next_long(rng_seed)} :
          /\ rng_seed' = drawn[2]
          /\ rng_long' = <<to_signed_long(drawn[1])>>
    /\ rng_call' = NoCall
    /\ rng_calls' = rng_calls + 1
    /\ UNCHANGED <<generator_vars, class_vars, caller_vars, locator_vars, detector_vars>>

RngNext == RngNextInt \/ RngNextLong

RngSpec == RngInit /\ [][RngNext]_vars

(***************************************************************************)
(* FortressLocator                                                         *)
(***************************************************************************)
SPACING == 27

SEPARATION == 4

SALT == 30084232

FORTRESS_WEIGHT == 2

BASTION_WEIGHT == 3

TOTAL_WEIGHT == FORTRESS_WEIGHT + BASTION_WEIGHT

\* the quotient rounded towards zero
floor_div_truncating(n, d) == IF n >= 0 THEN n \div d ELSE -((-n) \div d)

\* math.floor(n / d), d > 0: for |n| < 2^31 the double n / d lies between the same two
\* integers as the quotient
floor_div(n, d) == IF n >= 0 THEN n \div d ELSE -((d - 1 - n) \div d)

\* the selection drawn from self.random as the placement draws left it
is_fortress_at_chunk_shared(s, seed, x, z) ==
    Let(next_int(s, TOTAL_WEIGHT), LAMBDA selected :
        <<selected[1] < FORTRESS_WEIGHT, selected[2]>>)

\* _is_fortress_at_chunk, self.random._seed being s: <<selected < FORTRESS_WEIGHT, new
\* self.random._seed>>; selection_random is a WorldgenRandom of its own
is_fortress_at_chunk(s, seed, x, z) ==
    Let(next_int(set_large_feature_seed(seed, x, z), TOTAL_WEIGHT), LAMBDA selected :
        <<selected[1] < FORTRESS_WEIGHT, s>>)

\* get_potential_fortress_chunk: <<fortress_chunk_x, fortress_chunk_z, new self.random._seed>>
get_potential_fortress_chunk(seed, x, z) ==
    LET rx == floor_div(x, SPACING)
        rz == floor_div(z, SPACING)
        offset_range == SPACING - SEPARATION
    IN  Let(next_int(set_large_feature_with_salt(seed, rx, rz, SALT), offset_range),
            LAMBDA offset_x :
        Let(next_int(offset_x[2], offset_range), LAMBDA offset_z :
            <<rx * SPACING + offset_x[1], rz * SPACING + offset_z[1], offset_z[2]>>))

\* the lower end of the range rounded towards zero
min_region_x_truncating == floor_div_truncating(center_chunk_x - radius_chunks, SPACING)

\* the region range of find_fortresses_in_range
min_region_x == floor_div(center_chunk_x - radius_chunks, SPACING)

max_region_x == floor_div(center_chunk_x + radius_chunks, SPACING)

min_region_z == floor_div(center_chunk_z - radius_chunks, SPACING)

max_region_z == floor_div(center_chunk_z + radius_chunks, SPACING)

\* self.random drawn from as the last call left it
structure_chunk_no_reseed(s, seed, rx, rz) ==
    Let(next_int(s, SPACING - SEPARATION), LAMBDA offset_x :
        Let(next_int(offset_x[2], SPACING - SEPARATION), LAMBDA offset_z :
            <<rx * SPACING + offset_x[1], rz * SPACING + offset_z[1], offset_z[2]>>))

\* the structure position of a region in find_fortresses_in_range, self.random._seed being
\* s: <<structure_chunk_x, structure_chunk_z, new self.random._seed>>
structure_chunk(s, seed, rx, rz) ==
    LET offset_range == SPACING - SEPARATION
    IN  Let(next_int(set_large_feature_with_salt(seed, rx, rz, SALT), offset_range),
            LAMBDA offset_x :
        Let(next_int(offset_x[2], offset_range), LAMBDA offset_z :
            <<rx * SPACING + offset_x[1], rz * SPACING + offset_z[1], offset_z[2]>>))

\* the range test with strict comparisons
in_search_range_strict(x, z) ==
    abs(x - center_chunk_x) < radius_chunks /\ abs(z - center_chunk_z) < radius_chunks

\* "abs(structure_chunk_x - center_chunk_x) <= radius_chunks and ..."
in_search_range(x, z) ==
    abs(x - center_chunk_x) <= radius_chunks /\ abs(z - center_chunk_z) <= radius_chunks

\* the chunk put in front
append_fortress_first(list, chunk) == <<chunk>> \o list

\* fortresses.append((structure_chunk_x, structure_chunk_z))
append_fortress(list, chunk) == Append(list, chunk)

\* the chunks passed to get_potential_fortress_chunk
LocatorChunks == {<<0, 0>>, <<26, -1>>, <<-27, 27>>, <<-28, 53>>, <<-14, -14>>}

\* the (center_chunk_x, center_chunk_z, radius_chunks) passed to find_fortresses_in_range
LocatorWindows ==
    {<<0, 0, 20>>, <<13, 13, 13>>, <<-14, -14, 13>>, <<-14, 40, 13>>, <<-3, 7, 30>>,
     <<40, -41, 5>>, <<0, 0, 0>>}

MaxLocatorCalls == 2

\* FortressLocator(world_seed)
LocatorInit ==
    /\ world_seed \in 0..MaxSeed
    /\ NoGenerator
    /\ RngIdle
    /\ LocatorIdle
    /\ DetectorIdle

\* a call of get_potential_fortress_chunk
GetPotentialFortressChunk ==
    /\ locator_pc = "idle"
    /\ locator_calls < MaxLocatorCalls
    /\ \E c \in LocatorChunks :
       \E chunk \in {get_potential_fortress_chunk(world_seed, c[1], c[2])} :
          /\ locator_random' = chunk[3]
          /\ returned' = [call |-> "get_potential_fortress_chunk", args |-> c,
                          value |-> <<<<chunk[1], chunk[2]>>>>]
    /\ locator_calls' = locator_calls + 1
    /\ UNCHANGED <<locator_pc, center_chunk_x, center_chunk_z, radius_chunks, region_x,
                   region_z, fortresses>>
    /\ UNCHANGED <<generator_vars, class_vars, caller_vars, rng_vars, detector_vars>>

\* find_fortresses_in_range, up to the head of the region loops
FindStart ==
    /\ locator_pc = "idle"
    /\ locator_calls < MaxLocatorCalls
    /\ \E w \in LocatorWindows :
          /\ center_chunk_x' = w[1]
          /\ center_chunk_z' = w[2]
          /\ radius_chunks' = w[3]
    /\ region_x' = min_region_x'
    /\ region_z' = min_region_z'
    /\ fortresses' = <<>>
    /\ locator_pc' = "scan"
    /\ UNCHANGED <<locator_random, returned, locator_calls>>
    /\ UNCHANGED <<generator_vars, class_vars, caller_vars, rng_vars, detector_vars>>

\* one iteration of "for region_z in range(min_region_z, max_region_z + 1)"
FindRegion ==
    /\ locator_pc = "scan"
    /\ region_x <= max_region_x
    /\ \E chunk \in {structure_chunk(locator_random, world_seed, region_x, region_z)} :
          IF in_search_range(chunk[1], chunk[2])
          THEN \E selected \in {is_fortress_at_chunk(chunk[3], world_seed, chunk[1],
                                                     chunk[2])} :
                  /\ locator_random' = selected[2]
                  /\ fortresses' = IF selected[1]
                                   THEN append_fortress(fortresses, <<chunk[1], chunk[2]>>)
                                   ELSE fortresses
          ELSE /\ locator_random' = chunk[3]
               /\ UNCHANGED fortresses
    /\ IF region_z < max_region_z
       THEN /\ region_z' = region_z + 1
            /\ UNCHANGED region_x
       ELSE /\ region_z' = min_region_z
            /\ region_x' = region_x + 1
    /\ UNCHANGED <<locator_pc, center_chunk_x, center_chunk_z, radius_chunks, returned,
                   locator_calls>>
    /\ UNCHANGED <<generator_vars, class_vars, caller_vars, rng_vars, detector_vars>>

\* the region loops are over: return fortresses
FindReturn ==
    /\ locator_pc = "scan"
    /\ region_x > max_region_x
    /\ returned' = [call |-> "find_fortresses_in_range",
                    args |-> <<center_chunk_x, center_chunk_z, radius_chunks>>,
                    value |-> fortresses]
    /\ locator_calls' = locator_calls + 1
    /\ locator_pc' = "idle"
    /\ center_chunk_x' = 0
    /\ center_chunk_z' = 0
    /\ radius_chunks' = 0
    /\ region_x' = 0
    /\ region_z' = 0
    /\ fortresses' = <<>>
    /\ UNCHANGED locator_random
    /\ UNCHANGED <<generator_vars, class_vars, caller_vars, rng_vars, detector_vars>>

LocatorNext ==
    \/ GetPotentialFortressChunk
    \/ FindStart
    \/ FindRegion
    \/ FindReturn

LocatorSpec == LocatorInit /\ [][LocatorNext]_vars

(***************************************************************************)
(* CrossingDetector                                                        *)
(***************************************************************************)
CROSSING_SIZE == 19

\* StructurePiece.get_center
get_center(piece) ==
    <<floor_div(piece.bounding_box.min_x + piece.bounding_box.max_x, 2),
      floor_div(piece.bounding_box.min_y + piece.bounding_box.max_y, 2),
      floor_div(piece.bounding_box.min_z + piece.bounding_box.max_z, 2)>>

QuadCrossing(quad_members, center, bounding_box) ==
    [crossings |-> quad_members, center |-> center, bounding_box |-> bounding_box]

\* the x abutment tested without the y ranges
is_directly_adjacent_x_any_height(box1, box2) ==
    IF box1.min_z # box2.min_z \/ box1.max_z # box2.max_z THEN FALSE
    ELSE IF box2.min_x = box1.max_x + 1 THEN TRUE
    ELSE IF box1.min_x = box2.max_x + 1 THEN TRUE
    ELSE FALSE

\* _is_directly_adjacent_x
is_directly_adjacent_x(box1, box2) ==
    IF box1.min_z # box2.min_z \/ box1.max_z # box2.max_z THEN FALSE
    ELSE IF box1.min_y # box2.min_y \/ box1.max_y # box2.max_y THEN FALSE
    ELSE IF box2.min_x = box1.max_x + 1 THEN TRUE
    ELSE IF box1.min_x = box2.max_x + 1 THEN TRUE
    ELSE FALSE

\* _is_directly_adjacent_z
is_directly_adjacent_z(box1, box2) ==
    IF box1.min_x # box2.min_x \/ box1.max_x # box2.max_x THEN FALSE
    ELSE IF box1.min_y # box2.min_y \/ box1.max_y # box2.max_y THEN FALSE
    ELSE IF box2.min_z = box1.max_z + 1 THEN TRUE
    ELSE IF box1.min_z = box2.max_z + 1 THEN TRUE
    ELSE FALSE

\* the first loop of _find_quad_from_corner from position k of all_crossings on, right and
\* down being neighbors['right'] and neighbors['down'] (0 is None): <<right, down>>.
\* "crossing == corner_crossing" compares the fields of the two dataclass objects
RECURSIVE find_neighbors(_, _, _, _, _, _)
find_neighbors(objects, all_crossings, corner_crossing, k, right, down) ==
    IF k > Len(all_crossings) THEN <<right, down>>
    ELSE
    LET crossing == all_crossings[k]
        corner_center == get_center(objects[corner_crossing])
        corner_box == objects[corner_crossing].bounding_box
        center == get_center(objects[crossing])
        dx == center[1] - corner_center[1]
        dz == center[3] - corner_center[3]
        new_right ==
            IF /\ dx > 0
               /\ is_directly_adjacent_x(corner_box, objects[crossing].bounding_box)
               /\ \/ right = 0
                  \/ dx < get_center(objects[right])[1] - corner_center[1]
            THEN crossing ELSE right
        new_down ==
            IF /\ dz > 0
               /\ is_directly_adjacent_z(corner_box, objects[crossing].bounding_box)
               /\ \/ down = 0
                  \/ dz < get_center(objects[down])[3] - corner_center[3]
            THEN crossing ELSE down
    IN  IF objects[crossing] = objects[corner_crossing]
        THEN find_neighbors(objects, all_crossings, corner_crossing, k + 1, right, down)
        ELSE find_neighbors(objects, all_crossings, corner_crossing, k + 1,
                            new_right, new_down)

\* the diagonal tested against the wrong neighbours: x against right, z against down
RECURSIVE find_diagonal_swapped(_, _, _, _, _, _)
find_diagonal_swapped(objects, all_crossings, corner_crossing, right, down, k) ==
    IF k > Len(all_crossings) THEN 0
    ELSE
    LET crossing == all_crossings[k]
    IN  IF objects[crossing]
               \in {objects[corner_crossing], objects[right], objects[down]}
        THEN find_diagonal_swapped(objects, all_crossings, corner_crossing, right, down,
                                   k + 1)
        ELSE IF /\ is_directly_adjacent_x(objects[right].bounding_box,
                                          objects[crossing].bounding_box)
                /\ is_directly_adjacent_z(objects[down].bounding_box,
                                          objects[crossing].bounding_box)
        THEN crossing
        ELSE find_diagonal_swapped(objects, all_crossings, corner_crossing, right, down,
                                   k + 1)

\* the second loop of _find_quad_from_corner from position k on: neighbors['diagonal'];
\* "crossing in [...]" compares the fields as well
RECURSIVE find_diagonal(_, _, _, _, _, _)
find_diagonal(objects, all_crossings, corner_crossing, right, down, k) ==
    IF k > Len(all_crossings) THEN 0
    ELSE
    LET crossing == all_crossings[k]
    IN  IF objects[crossing]
               \in {objects[corner_crossing], objects[right], objects[down]}
        THEN find_diagonal(objects, all_crossings, corner_crossing, right, down, k + 1)
        ELSE IF /\ is_directly_adjacent_z(objects[right].bounding_box,
                                          objects[crossing].bounding_box)
                /\ is_directly_adjacent_x(objects[down].bounding_box,
                                          objects[crossing].bounding_box)
        THEN crossing
        ELSE find_diagonal(objects, all_crossings, corner_crossing, right, down, k + 1)

\* min(...) and max(...) of a generator expression
min_of(S) == CHOOSE m \in S : \A n \in S : m <= n

max_of(S) == CHOOSE m \in S : \A n \in S : m >= n

\* the overall box taken over the corner and its right neighbour only
make_quad_top_row(objects, quad_members) ==
    LET boxes == {objects[quad_members[j]].bounding_box : j \in 1..2}
        min_x == min_of({b.min_x : b \in boxes})
        min_y == min_of({b.min_y : b \in boxes})
        min_z == min_of({b.min_z : b \in boxes})
        max_x == max_of({b.max_x : b \in boxes})
        max_y == max_of({b.max_y : b \in boxes})
        max_z == max_of({b.max_z : b \in boxes})
    IN  QuadCrossing(quad_members,
                     <<floor_div(min_x + max_x, 2), floor_div(min_y + max_y, 2),
                       floor_div(min_z + max_z, 2)>>,
                     BoundingBox(min_x, min_y, min_z, max_x, max_y, max_z))

\* the QuadCrossing built from the four neighbours
make_quad(objects, quad_members) ==
    LET boxes == {objects[quad_members[j]].bounding_box : j \in 1..Len(quad_members)}
        min_x == min_of({b.min_x : b \in boxes})
        min_y == min_of({b.min_y : b \in boxes})
        min_z == min_of({b.min_z : b \in boxes})
        max_x == max_of({b.max_x : b \in boxes})
        max_y == max_of({b.max_y : b \in boxes})
        max_z == max_of({b.max_z : b \in boxes})
    IN  QuadCrossing(quad_members,
                     <<floor_div(min_x + max_x, 2), floor_div(min_y + max_y, 2),
                       floor_div(min_z + max_z, 2)>>,
                     BoundingBox(min_x, min_y, min_z, max_x, max_y, max_z))

\* _find_quad_from_corner: None or the one-element sequence of the QuadCrossing
find_quad_from_corner(objects, all_crossings, corner_crossing) ==
    Let(find_neighbors(objects, all_crossings, corner_crossing, 1, 0, 0),
        LAMBDA neighbors :
            IF neighbors[1] # 0 /\ neighbors[2] # 0
            THEN Let(find_diagonal(objects, all_crossings, corner_crossing,
                                   neighbors[1], neighbors[2], 1),
                     LAMBDA diagonal :
                         IF diagonal # 0
                         THEN <<make_quad(objects, <<corner_crossing, neighbors[1],
                                                     neighbors[2], diagonal>>)>>
                         ELSE None)
            ELSE None)

\* set(id(c) for c in quad.crossings)
id_set(quad) == {quad.crossings[j] : j \in 1..Len(quad.crossings)}

\* no quad counts as a duplicate
is_duplicate_quad_never(quad, existing) == FALSE

\* _is_duplicate_quad
is_duplicate_quad(quad, existing) ==
    \E k \in 1..Len(existing) : id_set(existing[k]) = id_set(quad)

\* a 19x10x19 crossing whose lowest corner is (x, y, z)
crossing_at(x, y, z) ==
    StructurePiece("BridgeCrossing",
                   BoundingBox(x, y, z, x + CROSSING_SIZE - 1, y + 9, z + CROSSING_SIZE - 1),
                   "NORTH", 1)

\* the objects the lists handed to CrossingDetector are made of: 1..8 the cells of a 4 x 2
\* grid of abutting crossings (cell (i, j) is object 4 * j + i + 1), 9..12 the cells 3, 4,
\* 7, 8 moved one block in x, 13 cell 6 moved two blocks in x, 14 cell 6 one block higher,
\* 15 an object with the fields of 1, 16 cell 6 moved two blocks in z, 17 cell 2 one block
\* higher, 18 and 19 the cells below 7 and 8
DetectorObjects ==
    [n \in 1..8 |-> crossing_at(CROSSING_SIZE * ((n - 1) % 4) - 28, 64,
                                CROSSING_SIZE * ((n - 1) \div 4) - 28)]
        \o <<crossing_at(11, 64, -28), crossing_at(30, 64, -28),
             crossing_at(11, 64, -9), crossing_at(30, 64, -9),
             crossing_at(-7, 64, -9), crossing_at(-9, 65, -9),
             crossing_at(-28, 64, -28), crossing_at(-9, 64, -7),
             crossing_at(-9, 65, -28), crossing_at(10, 64, 10), crossing_at(29, 64, 10)>>

\* the sequences of the elements of S in ascending order, one for each subset of S
RECURSIVE Ascending(_)
Ascending(S) ==
    IF S = {} THEN {<<>>}
    ELSE LET m == max_of(S)
             rest == Ascending(S \ {m})
         IN  rest \cup {Append(list, m) : list \in rest}

\* the orders of a list
RECURSIVE Permutations_of(_)
Permutations_of(S) ==
    IF S = {} THEN {<<>>}
    ELSE UNION {{<<e>> \o list : list \in Permutations_of(S \ {e})} : e \in S}

\* the lists handed to CrossingDetector: the 2 x 2 formation in every order, every choice of
\* cells of the grid, two formations one block apart, two formations abutting one cell
\* askew, an L of three with a fourth crossing off by two blocks or by one block of height,
\* lists naming an object twice, and a list holding two objects of equal fields
DetectorInputs ==
    Permutations_of({1, 2, 5, 6})
        \cup Ascending(1..8)
        \cup {<<1, 2, 5, 6, 9, 10, 11, 12>>, <<9, 1, 10, 2, 11, 5, 12, 6>>,
              <<1, 2, 5, 6, 7, 8, 18, 19>>, <<19, 18, 8, 7, 6, 5, 2, 1>>,
              <<1, 2, 5, 13>>, <<13, 5, 2, 1>>, <<1, 2, 5, 16>>, <<1, 2, 5, 14>>,
              <<1, 2, 5, 6, 14>>, <<1, 2, 5, 14, 6>>, <<1, 2, 5, 6, 13, 16>>,
              <<1, 2, 5, 6, 1>>, <<1, 1, 2, 5, 6, 6>>, <<6, 5, 2, 1, 1, 2, 5, 6>>,
              <<1, 15, 2, 5, 6>>, <<15, 2, 5, 6>>, <<1, 17, 5, 14>>}

\* CrossingDetector(crossings)
DetectorInit ==
    /\ world_seed = 0
    /\ NoGenerator
    /\ RngIdle
    /\ LocatorIdle
    /\ detector_objects = DetectorObjects
    /\ crossings \in DetectorInputs
    /\ quad_crossings = <<>>
    /\ detector_pc = "find"
    /\ corner_index = 0

\* find_quad_crossings, up to the head of the corner loop
FindQuadCrossings ==
    /\ detector_pc = "find"
    /\ quad_crossings' = <<>>
    /\ detector_pc' = IF Len(crossings) < 4 THEN "returned" ELSE "corners"
    /\ corner_index' = 0
    /\ UNCHANGED <<detector_objects, crossings>>
    /\ UNCHANGED <<generator_vars, class_vars, caller_vars, rng_vars, locator_vars>>

\* the corner loop left at the first quad appended
FindQuadFromCorner_first ==
    /\ detector_pc = "corners"
    /\ corner_index < Len(crossings)
    /\ \E quad \in {find_quad_from_corner(detector_objects, crossings,
                                          crossings[corner_index + 1])} :
          IF quad # None /\ ~is_duplicate_quad(quad[1], quad_crossings)
          THEN /\ quad_crossings' = Append(quad_crossings, quad[1])
               /\ corner_index' = Len(crossings)
          ELSE /\ UNCHANGED quad_crossings
               /\ corner_index' = corner_index + 1
    /\ UNCHANGED <<detector_objects, crossings, detector_pc>>
    /\ UNCHANGED <<generator_vars, class_vars, caller_vars, rng_vars, locator_vars>>

\* one iteration of "for i, (center1, crossing1) in enumerate(crossing_centers)"
FindQuadFromCorner ==
    /\ detector_pc = "corners"
    /\ corner_index < Len(crossings)
    /\ \E quad \in {find_quad_from_corner(detector_objects, crossings,
                                          crossings[corner_index + 1])} :
          quad_crossings' =
              IF quad # None /\ ~is_duplicate_quad(quad[1], quad_crossings)
              THEN Append(quad_crossings, quad[1])
              ELSE quad_crossings
    /\ corner_index' = corner_index + 1
    /\ UNCHANGED <<detector_objects, crossings, detector_pc>>
    /\ UNCHANGED <<generator_vars, class_vars, caller_vars, rng_vars, locator_vars>>

\* the corner loop is over: return quad_crossings
FindQuadReturn ==
    /\ detector_pc = "corners"
    /\ corner_index >= Len(crossings)
    /\ detector_pc' = "returned"
    /\ UNCHANGED <<detector_objects, crossings, quad_crossings, corner_index>>
    /\ UNCHANGED <<generator_vars, class_vars, caller_vars, rng_vars, locator_vars>>

DetectorNext ==
    \/ FindQuadCrossings
    \/ FindQuadFromCorner
    \/ FindQuadReturn

DetectorSpec == DetectorInit /\ [][DetectorNext]_vars

(***************************************************************************)
(* main.find_quad_crossings_for_seed                                       *)
(***************************************************************************)
\* the world seeds main is run with; 23 is the least seed for which one of the fortresses
\* found holds four crossings in a 2x2 formation
MainSeeds == (0..MaxSeed) \cup {23}

\* locator = FortressLocator(world_seed)
MainInit ==
    /\ world_seed \in MainSeeds
    /\ NoGenerator
    /\ RngIdle
    /\ LocatorIdle
    /\ DetectorIdle

\* fortresses = locator.find_fortresses_in_range(center_chunk_x, center_chunk_z, range_chunks)
MainFind ==
    /\ locator_calls = 0
    /\ FindStart

\* the next iteration of "for i, (chunk_x, chunk_z) in enumerate(fortresses)":
\* FortressGenerator(world_seed, chunk_x, chunk_z)
Construct ==
    /\ returned.call = "find_fortresses_in_range"
    /\ pc = "none" \/ (pc = "done" /\ detector_pc = "returned")
    /\ \E i \in {IF pc = "none" THEN 0 ELSE fortress_index + 1} :
          /\ i < Len(returned.value)
          /\ fortress_index' = i
          /\ chunk_x' = returned.value[i + 1][1]
          /\ chunk_z' = returned.value[i + 1][2]
    /\ random' = set_seed(IntBytes(0))
    /\ pieces' = <<>>
    /\ pending_children' = <<>>
    /\ bridge_weights' = new_weights(class_bridge_weights)
    /\ castle_weights' = new_weights(class_castle_weights)
    /\ previous_piece' = "None"
    /\ start_bounding_box' = None
    /\ pc' = "generate"
    /\ parent' = 0
    /\ calls' = <<>>
    /\ request' = NoRequest
    /\ total_weight' = 0
    /\ attempts' = 0
    /\ detector_objects' = <<>>
    /\ crossings' = <<>>
    /\ quad_crossings' = <<>>
    /\ detector_pc' = "none"
    /\ corner_index' = 0
    /\ UNCHANGED <<world_seed, class_vars, rng_vars, locator_vars>>

\* every piece listed as a crossing
get_bridge_crossings_all(list) == [k \in 1..Len(list) |-> k]

\* get_bridge_crossings: the objects of list that are crossings, in the order of list
get_bridge_crossings(list) ==
    SelectSeq([k \in 1..Len(list) |-> k],
              LAMBDA k : list[k].piece_type \in {"BridgeCrossing", "StartPiece"})

\* crossings = generator.get_bridge_crossings() and, in analyze_fortress_crossings,
\* detector = CrossingDetector(crossings)
AnalyzeFortressCrossings ==
    /\ pc = "done"
    /\ detector_pc = "none"
    /\ detector_objects' = pieces
    /\ crossings' = get_bridge_crossings(pieces)
    /\ quad_crossings' = <<>>
    /\ detector_pc' = "find"
    /\ corner_index' = 0
    /\ UNCHANGED <<generator_vars, class_vars, caller_vars, rng_vars, locator_vars>>

MainNext ==
    \/ MainFind
    \/ FindRegion
    \/ FindReturn
    \/ Construct
    \/ Next
    \/ AnalyzeFortressCrossings
    \/ FindQuadCrossings
    \/ FindQuadFromCorner
    \/ FindQuadReturn

MainSpec == MainInit /\ [][MainNext]_vars

(***************************************************************************)
(* Properties of a generator run                                           *)
(***************************************************************************)
Box(i) == pieces[i].bounding_box

\* inclusive overlap of two boxes on x, y and z
Overlap(a, b) ==
    /\ a.min_x <= b.max_x /\ b.min_x <= a.max_x
    /\ a.min_y <= b.max_y /\ b.min_y <= a.max_y
    /\ a.min_z <= b.max_z /\ b.min_z <= a.max_z

\* the box a BridgeEndFiller would get at the running request
FillerBox == orient_box(request.x, request.y, request.z, -1, -3, 0, 5, 10, 8, request.direction)

\* the last step appended a piece to the pieces list
Appended == Len(pieces') = Len(pieces) + 1

\* C1: at every point of a run no two distinct pieces of the pieces list have bounding
\* boxes that overlap (inclusively) on x, y and z.
C1_NoOverlap ==
    \A i \in 1..Len(pieces) : \A j \in 1..Len(pieces) : i # j => ~Overlap(Box(i), Box(j))

\* C1 witness: the filler fallback of a request is reached with a filler box that overlaps
\* a placed piece, in a run that has placed at least ten pieces.
C1_Witness ==
    /\ pc = "loop" /\ ~(attempts < 5 /\ total_weight > 0 /\ request.depth <= 30)
    /\ Len(pieces) >= 10
    /\ \E i \in 1..Len(pieces) : Overlap(Box(i), FillerBox)

\* C2 (as stated): the pending list never holds a BridgeEndFiller.
C2_NoFillerPending ==
    \A k \in 1..Len(pending_children) :
        pieces[pending_children[k]].piece_type # "BridgeEndFiller"

\* C2 (amended): a BridgeEndFiller produced by the filler fallback is appended to the pieces
\* list and, in the same step, to the pending list like every other placed piece; when it
\* is popped later it makes no child call.
C2_FillerEnqueued ==
    [][ /\ (Appended /\ pieces'[Len(pieces')].piece_type = "BridgeEndFiller")
            => pending_children' = Append(pending_children, Len(pieces'))
        /\ (pc = "pop" /\ pc' # "done" /\ pieces[parent'].piece_type = "BridgeEndFiller")
            => (calls' = <<>> /\ pc' = "pop" /\ pieces' = pieces) ]_vars

\* C2 witness: a BridgeEndFiller is in the pending list.
C2_Witness ==
    \E k \in 1..Len(pending_children) :
        pieces[pending_children[k]].piece_type = "BridgeEndFiller"

\* C3 (as stated): once a selection of a request has been abandoned, the request draws
\* nothing more from the RNG.
C3_NoDrawAfterAbandon ==
    [][ (pc = "loop" /\ attempts >= 1) => random' = random ]_vars

\* C3 (amended): an abandoned selection ends only its own attempt; the request goes on
\* drawing nextInt(total) until a piece is placed or five attempts have been made, so the
\* filler fallback is entered only with no attempt made or with all five abandoned, and
\* a request never makes more than five attempts.
C3_FiveAttempts ==
    /\ [](attempts <= 5)
    /\ [][ /\ (pc = "loop" /\ attempts \in 1..4)
               => (attempts' = attempts + 1 /\ random' # random)
           /\ (pc = "loop" /\ random' = random /\ pc' # "loop")
               => attempts \in {0, 5} ]_vars

\* C3 witness: the filler fallback is reached after five abandoned attempts.
C3_Witness == pc = "loop" /\ attempts = 5

C5_Depth ==
    /\ [](pieces # <<>> => pieces[1].piece_type = "StartPiece" /\ pieces[1].gen_depth = 0)
    /\ [][ (Appended /\ pieces # <<>>)
              => pieces'[Len(pieces')].gen_depth = pieces[parent].gen_depth + 1 ]_vars

\* C5 witness: a weighted piece and a BridgeEndFiller have been placed as children of a
\* piece that is not the start piece.
C5_Witness ==
    /\ \E i \in 1..Len(pieces) : pieces[i].gen_depth >= 2 /\ pieces[i].piece_type = "BridgeEndFiller"
    /\ \E i \in 1..Len(pieces) : pieces[i].gen_depth >= 2 /\ pieces[i].piece_type # "BridgeEndFiller"

\* C6: every placed non-start piece has gen_depth <= 31.
C6_DepthBound == \A i \in 2..Len(pieces) : pieces[i].gen_depth <= 31

\* C6 witness: a piece of gen_depth 31 has been placed.
C6_Witness == \E i \in 2..Len(pieces) : pieces[i].gen_depth = 31

\* the origin of the running request is more than 112 from the anchor minima on x or z
FarOrigin ==
    /\ pieces # <<>>
    /\ \/ abs(request.x - Box(1).min_x) > 112
       \/ abs(request.z - Box(1).min_z) > 112

\* C7: a spawn request whose origin is more than 112 from the anchor minima on x or z
\* appends and enqueues nothing and leaves the RNG state, both weight lists and the
\* last-placed tracker unchanged; no piece is ever appended for such an origin.
C7_Cutoff ==
    [][ /\ (pc = "request" /\ FarOrigin)
            => /\ UNCHANGED <<pieces, pending_children, random, bridge_weights,
                              castle_weights, previous_piece>>
               /\ pc' \in {"child", "pop"}
        /\ (Appended /\ pieces # <<>>) => ~FarOrigin ]_vars

\* C7 witness: a request with an origin beyond the cutoff is about to be handled.
C7_Witness == pc = "request" /\ FarOrigin

\* C8: every placed piece has its min_x and min_z within 130 of the start piece's.
C8_AnchorBound ==
    \A i \in 1..Len(pieces) :
        /\ abs(Box(i).min_x - Box(1).min_x) <= 130
        /\ abs(Box(i).min_z - Box(1).min_z) <= 130

\* C8 witness: a placed piece has min_x or min_z more than 112 from the start piece's.
C8_Witness ==
    \E i \in 1..Len(pieces) :
        \/ abs(Box(i).min_x - Box(1).min_x) > 112
        \/ abs(Box(i).min_z - Box(1).min_z) > 112

\* the entries of the two lists
Entries ==
    {bridge_weights[i] : i \in 1..Len(bridge_weights)}
        \cup {castle_weights[i] : i \in 1..Len(castle_weights)}

\* C9: every entry still in a weight list with max_place_count > 0 has
\* place_count < max_place_count, and the entries with max_place_count = 0 stay in their
\* lists.
C9_Caps ==
    /\ \A pw \in Entries : pw.max_place_count > 0 => pw.place_count < pw.max_place_count
    /\ \E i \in 1..Len(bridge_weights) : bridge_weights[i].piece_type = "BridgeStraight"
    /\ \E i \in 1..Len(castle_weights) :
          castle_weights[i].piece_type = "CastleSmallCorridorPiece"

\* C9 witness: a request has completed that removed an entry from each list, while
\* unlimited entries have been placed.
C9_Witness ==
    /\ pc \in {"child", "pop"}
    /\ Len(bridge_weights) < 6 /\ Len(castle_weights) < 7
    /\ \E pw \in Entries : pw.max_place_count = 0 /\ pw.place_count > 0

\* C10: every run ends: the main loop exits with an empty pending list.
C10_Terminates == <>(pc = "done" /\ pending_children = <<>>)

\* C10 witness: a run has ended after popping and processing at least forty pieces.
C10_Witness == pc = "done" /\ pending_children = <<>> /\ Len(pieces) > 40

\* the positions in pieces of the weighted pieces, in placement order
RECURSIVE WeightedFrom(_)
WeightedFrom(i) ==
    IF i > Len(pieces) THEN <<>>
    ELSE IF pieces[i].piece_type \in {"StartPiece", "BridgeEndFiller"} THEN WeightedFrom(i + 1)
    ELSE <<i>> \o WeightedFrom(i + 1)

\* the kinds whose entry of the weight tables has allow_in_row = True
AllowedInRow == {"BridgeStraight", "CastleSmallCorridorPiece", "CastleCorridorStairsPiece"}

\* C11: two weighted pieces placed one after the other (start piece and BridgeEndFillers
\* ignored) have the same kind only if the kind allows it, and previous_piece is the kind of
\* the weighted piece placed last ("None" before the first): it changes only in a step that
\* appends a weighted piece
C11_NoRepeat ==
    LET w == WeightedFrom(1)
    IN  /\ \A k \in 1..(Len(w) - 1) :
              pieces[w[k]].piece_type = pieces[w[k + 1]].piece_type
              => pieces[w[k]].piece_type \in AllowedInRow
        /\ previous_piece = IF w = <<>> THEN "None" ELSE pieces[w[Len(w)]].piece_type

\* an allowed repeat was placed, and a selection now repeats a kind that does not allow it
C11_Witness ==
    LET w == WeightedFrom(1)
    IN  /\ \E k \in 1..(Len(w) - 1) : pieces[w[k]].piece_type = pieces[w[k + 1]].piece_type
        /\ pc = "loop"
        /\ attempt_loop_condition
        /\ LET i == SelectWeight(Weights, next_int(random, total_weight)[1], 1)
           IN  /\ i # 0
               /\ do_place(Weights[i], request.depth)
               /\ Weights[i].piece_type = previous_piece
               /\ Weights[i].piece_type \notin AllowedInRow
               /\ create_piece(previous_piece, request.x, request.y, request.z,
                               request.direction, request.depth) # None

\* the pending list refers to pieces of the list other than the start piece, once each
PendingInPieces ==
    /\ \A k \in 1..Len(pending_children) : pending_children[k] \in 2..Len(pieces)
    /\ \A k, l \in 1..Len(pending_children) :
          pending_children[k] = pending_children[l] => k = l

\* one iteration of the main loop
PopStep ==
    LET drawn == next_int(random, Len(pending_children))
        idx == drawn[1]
    IN  /\ random' = drawn[2]
        /\ Len(pending_children') = Len(pending_children) - 1
        /\ \A k \in 1..Len(pending_children') :
              pending_children'[k] = pending_children[IF k <= idx THEN k ELSE k + 1]
        /\ parent' = pending_children[idx + 1]
        /\ calls' = add_children(pieces[parent'])
        /\ pieces' = pieces

\* C12: an iteration of the main loop draws one next_int(len(pending_children)) from
\* self.random, removes the element at that index and spawns the children of that element;
\* outside the loop head, pending_children only grows by the piece appended to pieces in the
\* same step, and children are spawned only for the start piece (once, before the first pop)
\* and for the element just removed; pending_children holds pieces of the list other than
\* the start piece, each once
C12_MainLoop ==
    /\ [](PendingInPieces)
    /\ [][/\ (pc = "pop" /\ pending_children # <<>>) => PopStep
          /\ pc # "pop" =>
                \/ pending_children' = pending_children
                \/ /\ Appended
                   /\ pending_children' = Append(pending_children, Len(pieces'))
          /\ pc = "generate" =>
                /\ parent' = 1
                /\ pieces'[1].piece_type = "StartPiece"
                /\ pending_children' = <<>>
          /\ pc \notin {"generate", "pop"} => parent' = parent
          /\ parent' \notin {pending_children'[k] : k \in 1..Len(pending_children')}]_vars

\* an earlier iteration has spawned children, and this one removes an inner element
C12_Witness ==
    /\ pc = "pop"
    /\ parent >= 2
    /\ Len(pending_children) >= 3
    /\ next_int(random, Len(pending_children))[1] \in 1..(Len(pending_children) - 2)

\* C13: a newly constructed generator has both weight lists complete with every
\* place_count = 0, no pieces, nothing pending, no previous_piece and no start_bounding_box,
\* however many generators ran before it, and the class-level tables keep their values
C13_FreshGenerator ==
    /\ class_bridge_weights = BRIDGE_PIECE_WEIGHTS
    /\ class_castle_weights = CASTLE_PIECE_WEIGHTS
    /\ pc = "generate" =>
          /\ bridge_weights = BRIDGE_PIECE_WEIGHTS
          /\ castle_weights = CASTLE_PIECE_WEIGHTS
          /\ \A k \in 1..Len(bridge_weights) : bridge_weights[k].place_count = 0
          /\ \A k \in 1..Len(castle_weights) : castle_weights[k].place_count = 0
          /\ pieces = <<>>
          /\ pending_children = <<>>
          /\ previous_piece = "None"
          /\ start_bounding_box = None

\* a generator constructed after another one has run
C13_Witness == pc = "generate" /\ fortress_index >= 1

(***************************************************************************)
(* Properties of LegacyRandomSource                                        *)
(***************************************************************************)
\* a + b in wrapping signed 32-bit arithmetic, 0 <= a, b < 2^31
Wrap32Add(a, b) ==
    IF a > 2147483647 - b THEN ((a - 2147483647) + (b - 2147483647)) - 2 ELSE a + b

\* C14: next_int(bound), bound not a power of two, accepts the draw bits = next(31) with
\* val = bits mod bound iff bits - val + (bound - 1) >= 0 in wrapping signed 32-bit
\* arithmetic; a draw whose sum wraps negative is rejected and next(31) is drawn again
C14_Rejection ==
    [][(rng_calls' = rng_calls + 1 /\ ~rng_call'.raised /\ ~IsPowerOfTwo(rng_call'.bound))
        => LET bound == rng_call'.bound
               t == next_seed(rng_seed)
               bits == Top31(t)
               val == bits % bound
           IN  (rng_seed' = t /\ rng_call'.value = val)
                   <=> Wrap32Add(bits - val, bound - 1) >= 0]_vars

\* C16: next_int(bound) with bound <= 0 raises ValueError and leaves _seed as it was
C16_BoundError ==
    [][(rng_calls' = rng_calls + 1 /\ rng_call'.bound <= 0)
        => (rng_call'.raised /\ rng_seed' = rng_seed)]_vars

\* a call with bound <= 0 has raised, after a call that advanced the source
C16_Witness == rng_calls = 2 /\ rng_call.raised /\ rng_call.bound <= 0

(***************************************************************************)
(* Properties of FortressLocator                                           *)
(***************************************************************************)
\* the regions the inputs can touch
Regions == -4..4

\* chunk coordinate c lies in region r of one axis
InRegion(c, r) == r * 27 <= c /\ c < r * 27 + 27

\* C17: get_potential_fortress_chunk(cx, cz) returns (rx*27 + ox, rz*27 + oz) with
\* rx = floor(cx/27), rz = floor(cz/27) and 0 <= ox, oz <= 22, for negative coordinates too:
\* the chunk returned lies in the region of (cx, cz)
C17_PotentialChunk ==
    returned.call = "get_potential_fortress_chunk" =>
        \E rx, rz \in Regions :
            /\ InRegion(returned.args[1], rx)
            /\ InRegion(returned.args[2], rz)
            /\ returned.value[1][1] - rx * 27 \in 0..22
            /\ returned.value[1][2] - rz * 27 \in 0..22

\* returned for a chunk with a negative coordinate that is no multiple of 27
C17_Witness ==
    /\ returned.call = "get_potential_fortress_chunk"
    /\ returned.args[1] < 0
    /\ returned.args[1] % 27 # 0

\* the chunk get_potential_fortress_chunk gives for region (rx, rz)
Candidate(rx, rz) ==
    LET chunk == get_potential_fortress_chunk(world_seed, rx * 27, rz * 27)
    IN  <<chunk[1], chunk[2]>>

\* the regions r of one axis with floor((c - radius)/27) <= r <= floor((c + radius)/27)
RegionRange(c, radius) == {r \in Regions : r * 27 + 26 >= c - radius /\ r * 27 <= c + radius}

\* the candidates of the regions of the window (cx, cz, radius)
WindowCandidates(cx, cz, radius) ==
    {Candidate(rx, rz) : rx \in RegionRange(cx, radius), rz \in RegionRange(cz, radius)}

InWindow(chunk, cx, cz, radius) ==
    /\ chunk[1] - cx <= radius
    /\ cx - chunk[1] <= radius
    /\ chunk[2] - cz <= radius
    /\ cz - chunk[2] <= radius

\* C18: find_fortresses_in_range(center, radius) returns exactly the candidate chunks of the
\* regions of its region range that (a) lie within radius of the center on both axes and
\* (b) classify as Fortress
C18_FindExact ==
    returned.call = "find_fortresses_in_range" =>
        LET cx == returned.args[1]
            cz == returned.args[2]
            radius == returned.args[3]
        IN  {returned.value[k] : k \in 1..Len(returned.value)}
                = {chunk \in WindowCandidates(cx, cz, radius) :
                      /\ InWindow(chunk, cx, cz, radius)
                      /\ is_fortress_at_chunk(locator_random, world_seed, chunk[1], chunk[2])[1]}

\* a call returned a chunk, left out a Fortress candidate beyond the radius and left out a
\* candidate within the radius that is no Fortress
C18_Witness ==
    /\ returned.call = "find_fortresses_in_range"
    /\ returned.value # <<>>
    /\ LET cx == returned.args[1]
           cz == returned.args[2]
           radius == returned.args[3]
       IN  /\ \E chunk \in WindowCandidates(cx, cz, radius) :
                 /\ ~InWindow(chunk, cx, cz, radius)
                 /\ is_fortress_at_chunk(locator_random, world_seed, chunk[1], chunk[2])[1]
           /\ \E chunk \in WindowCandidates(cx, cz, radius) :
                 /\ InWindow(chunk, cx, cz, radius)
                 /\ ~is_fortress_at_chunk(locator_random, world_seed, chunk[1], chunk[2])[1]

\* the region of chunk coordinate c on one axis
RegionOf(c) == CHOOSE r \in Regions : InRegion(c, r)

\* C19: the list find_fortresses_in_range returns holds at most one chunk per region and
\* follows the scan order: region x ascending, and region z ascending within a region x
C19_ScanOrder ==
    returned.call = "find_fortresses_in_range" =>
        \A k, l \in 1..Len(returned.value) :
            k < l =>
                \/ RegionOf(returned.value[k][1]) < RegionOf(returned.value[l][1])
                \/ /\ RegionOf(returned.value[k][1]) = RegionOf(returned.value[l][1])
                   /\ RegionOf(returned.value[k][2]) < RegionOf(returned.value[l][2])

\* a returned list with two chunks of one region x and a chunk of another region x
C19_Witness ==
    /\ returned.call = "find_fortresses_in_range"
    /\ \E k, l, m \in 1..Len(returned.value) :
          /\ k < l
          /\ RegionOf(returned.value[k][1]) = RegionOf(returned.value[l][1])
          /\ RegionOf(returned.value[m][1]) # RegionOf(returned.value[k][1])

\* the window (cx, cz, radius) covers exactly one region
RegionWindow(cx, cz, radius) ==
    radius = 13 /\ (cx - 13) % 27 = 0 /\ (cz - 13) % 27 = 0

\* C20: find_fortresses_in_range with the window covering exactly one region returns the
\* one-element list of the chunk get_potential_fortress_chunk gives for that region when the
\* chunk classifies as Fortress and the empty list otherwise, whatever calls were made on
\* the locator before
C20_RegionWindow ==
    (/\ returned.call = "find_fortresses_in_range"
     /\ RegionWindow(returned.args[1], returned.args[2], returned.args[3])) =>
        LET chunk == get_potential_fortress_chunk(world_seed, returned.args[1],
                                                  returned.args[2])
        IN  returned.value = IF is_fortress_at_chunk(locator_random, world_seed, chunk[1], chunk[2])[1]
                             THEN <<<<chunk[1], chunk[2]>>>>
                             ELSE <<>>

\* the second call on a locator returned the chunk of a one-region window
C20_Witness ==
    /\ locator_calls = 2
    /\ returned.call = "find_fortresses_in_range"
    /\ RegionWindow(returned.args[1], returned.args[2], returned.args[3])
    /\ returned.value # <<>>

(***************************************************************************)
(* Properties of find_quad_crossings_for_seed                              *)
(***************************************************************************)
\* C15: no call path of the generator or the locator passes a bound <= 0 to next_int:
\* next_int(total_weight) and next_int(len(pending_children)) never raise ValueError, and
\* the other bounds are the positive constants 4, 8, SPACING - SEPARATION = 23 and
\* TOTAL_WEIGHT = 5
C15_BoundsPositive ==
    /\ pc # "ValueError"
    /\ SPACING - SEPARATION = 23
    /\ TOTAL_WEIGHT = 5

\* a request whose lists leave no weight to draw from: next_int(total_weight) is skipped
C15_Witness == pc = "loop" /\ total_weight <= 0 /\ request.depth <= MAX_DEPTH

(***************************************************************************)
(* Properties of _is_fortress_at_chunk                                     *)
(***************************************************************************)
\* states self.random can be in when the selection is made
PlacementStates(chunk) ==
    {locator_random, chunk[3], set_seed(IntBytes(0)),
     set_large_feature_seed(world_seed, chunk[1], chunk[2])}

\* C21: the Fortress/Bastion classification of a chunk depends only on (world_seed, chunk_x,
\* chunk_z): in an iteration of find_fortresses_in_range that classifies its candidate, the
\* answer acted upon is the one of a generator seeded afresh for the candidate, it is the
\* same for every state of the placement generator, and the placement generator is left as
\* its two offset draws left it
C21_Classification ==
    [][(locator_pc = "scan" /\ region_x <= max_region_x) =>
           LET chunk == structure_chunk(locator_random, world_seed, region_x, region_z)
               fresh == next_int(set_large_feature_seed(world_seed, chunk[1], chunk[2]),
                                 TOTAL_WEIGHT)[1] < FORTRESS_WEIGHT
           IN  /\ locator_random' = chunk[3]
               /\ in_search_range(chunk[1], chunk[2]) =>
                     /\ (fortresses' # fortresses) = fresh
                     /\ \A s \in PlacementStates(chunk) :
                           is_fortress_at_chunk(s, world_seed, chunk[1], chunk[2])
                               = <<fresh, s>>]_vars

\* the second scan of a locator has classified a candidate as Fortress after an earlier call
\* left the placement generator in another state
C21_Witness ==
    /\ locator_calls = 1
    /\ locator_pc = "scan"
    /\ fortresses # <<>>
    /\ locator_random # set_seed(IntBytes(0))

(***************************************************************************)
(* Properties of find_quad_crossings                                       *)
(***************************************************************************)
\* box b abuts box a on its +X face, with the y-range and the z-range of a
RightOf(a, b) ==
    /\ a.min_y = b.min_y /\ a.max_y = b.max_y
    /\ a.min_z = b.min_z /\ a.max_z = b.max_z
    /\ b.min_x = a.max_x + 1

\* box b abuts box a on its +Z face, with the y-range and the x-range of a
Below(a, b) ==
    /\ a.min_y = b.min_y /\ a.max_y = b.max_y
    /\ a.min_x = b.min_x /\ a.max_x = b.max_x
    /\ b.min_z = a.max_z + 1

\* the objects tl, tr, bl, br satisfy the 2x2 abutment relations
Formation(tl, tr, bl, br) ==
    /\ RightOf(detector_objects[tl].bounding_box, detector_objects[tr].bounding_box)
    /\ Below(detector_objects[tl].bounding_box, detector_objects[bl].bounding_box)
    /\ Below(detector_objects[tr].bounding_box, detector_objects[br].bounding_box)
    /\ RightOf(detector_objects[bl].bounding_box, detector_objects[br].bounding_box)

\* the objects of self.crossings
Listed == {crossings[k] : k \in 1..Len(crossings)}

\* the sets of four listed objects that satisfy the relations
Formations ==
    {{tl, tr, bl, br} : <<tl, tr, bl, br>> \in
        {f \in Listed \X Listed \X Listed \X Listed : Formation(f[1], f[2], f[3], f[4])}}

\* C22: every cluster of find_quad_crossings, listed as [TL, TR, BL, BR], satisfies the
\* abutment relations: TR abuts TL on +X and BL abuts TL on +Z with equal y-range and equal
\* range on the other axis, BR abuts TR on +Z and BL on +X in the same way; a list in which
\* no four objects satisfy the relations yields no cluster
C22_Relations ==
    /\ \A k \in 1..Len(quad_crossings) :
          /\ Len(quad_crossings[k].crossings) = 4
          /\ Formation(quad_crossings[k].crossings[1], quad_crossings[k].crossings[2],
                       quad_crossings[k].crossings[3], quad_crossings[k].crossings[4])
    /\ (detector_pc = "returned" /\ Formations = {}) => quad_crossings = <<>>

\* a list of more than four crossings one of which stands one block higher has returned a
\* cluster
C22_Witness ==
    /\ detector_pc = "returned"
    /\ quad_crossings # <<>>
    /\ Len(crossings) > 4
    /\ \E a, b \in Listed :
          detector_objects[a].bounding_box.min_y # detector_objects[b].bounding_box.min_y

\* the footprint of every listed crossing is 19 x 19 and no two entries of the list intersect
SeparateCrossings ==
    /\ \A k \in 1..Len(crossings) :
          LET b == detector_objects[crossings[k]].bounding_box
          IN  b.max_x - b.min_x = 18 /\ b.max_z - b.min_z = 18
    /\ \A k, l \in 1..Len(crossings) :
          k # l => ~intersects(detector_objects[crossings[k]].bounding_box,
                               detector_objects[crossings[l]].bounding_box)

\* C23: for a list of pairwise non-intersecting crossings of 19 x 19 footprint,
\* find_quad_crossings returns, for every four of them that satisfy the abutment relations, a
\* cluster of exactly those four; four crossings in one 2x2 formation yield exactly one
\* cluster, whatever their order in the list
C23_FindsFormation ==
    (detector_pc = "returned" /\ SeparateCrossings) =>
        /\ \A f \in Formations :
              \E k \in 1..Len(quad_crossings) : id_set(quad_crossings[k]) = f
        /\ (Len(crossings) = 4 /\ Formations # {}) => Len(quad_crossings) = 1

\* the four crossings of a formation, listed with the top-left crossing last and the
\* bottom-right crossing first, have yielded their cluster
C23_Witness ==
    /\ detector_pc = "returned"
    /\ SeparateCrossings
    /\ Len(crossings) = 4
    /\ Formation(crossings[4], crossings[3], crossings[2], crossings[1])
    /\ Len(quad_crossings) = 1

\* the list is made of eight separate crossings that split into two 2x2 formations
TwoFormations ==
    /\ Len(crossings) = 8
    /\ SeparateCrossings
    /\ \E f, g \in Formations : f \cap g = {} /\ f \cup g = Listed

\* C24 as stated: eight crossings in two 2x2 formations yield exactly two clusters
C24_TwoClusters ==
    (detector_pc = "returned" /\ TwoFormations) => Len(quad_crossings) = 2

\* C24: for eight crossings in two 2x2 formations, find_quad_crossings returns one cluster
\* for every four of the eight that satisfy the abutment relations: the two formations, and a
\* third cluster when the formations abut in line as a 4 x 2 grid, whose middle four
\* crossings satisfy the relations as well
C24_ClusterPerFormation ==
    (detector_pc = "returned" /\ TwoFormations) =>
        /\ {id_set(quad_crossings[k]) : k \in 1..Len(quad_crossings)} = Formations
        /\ Len(quad_crossings) = Cardinality(Formations)
        /\ Len(quad_crossings) \in {2, 3}
        /\ Len(quad_crossings) = 3 <=>
              \E f \in Formations : \A g \in Formations : f = g \/ f \cap g # {}

\* two formations abutting in line have yielded three clusters
C24_Witness ==
    /\ detector_pc = "returned"
    /\ TwoFormations
    /\ Len(quad_crossings) = 3

\* C26: the list of find_quad_crossings never holds two clusters with the same set of
\* member objects
C26_NoDuplicate ==
    \A k, l \in 1..Len(quad_crossings) :
        k # l => id_set(quad_crossings[k]) # id_set(quad_crossings[l])

\* the corner loop has met, a second time, an object that is the corner of a cluster
C26_Witness ==
    /\ detector_pc = "returned"
    /\ quad_crossings # <<>>
    /\ \E k, l \in 1..Len(crossings) :
          /\ k < l
          /\ crossings[k] = crossings[l]
          /\ crossings[k] = quad_crossings[1].crossings[1]

\* C25: every cluster the detector holds for the crossings of a generator run has exactly
\* four pairwise distinct members, and its bounding box spans two abutting boxes 19 wide on
\* X and on Z: max_x - min_x = 37 and max_z - min_z = 37
C25_QuadSymmetry ==
    pc = "done" =>
        \A k \in 1..Len(quad_crossings) :
            /\ Len(quad_crossings[k].crossings) = 4
            /\ Cardinality(id_set(quad_crossings[k])) = 4
            /\ quad_crossings[k].bounding_box.max_x - quad_crossings[k].bounding_box.min_x
                  = 2 * CROSSING_SIZE - 1
            /\ quad_crossings[k].bounding_box.max_z - quad_crossings[k].bounding_box.min_z
                  = 2 * CROSSING_SIZE - 1
            /\ 2 * CROSSING_SIZE - 1 = 37

\* the detector has returned a cluster for the crossings of a generator run
C25_Witness ==
    /\ pc = "done"
    /\ detector_pc = "returned"
    /\ detector_objects = pieces
    /\ quad_crossings # <<>>

(***************************************************************************)
(* Properties of next_long                                                 *)
(***************************************************************************)
\* the two's complement image of a signed long
LongImage(long) == IF long.negative THEN Neg64(long.magnitude) ELSE long.magnitude

\* C27: next_long() draws high = next(32), then low = next(32), and returns
\* (high << 32) + (low sign-extended from 32 bits) wrapped to a signed long: when the top bit
\* of low is set the result is the zero-extended combination of high and low minus 2^32
\* (mod 2^64), otherwise it is that combination; the result lies in [-2^63, 2^63)
C27_NextLong ==
    [][(rng_long' # None /\ rng_calls' = rng_calls + 1) =>
           LET s1 == next_seed(rng_seed)
               s2 == next_seed(s1)
               high == Top32(s1)
               low == Top32(s2)
               combined == low \o high
               image == LongImage(rng_long'[1])
           IN  /\ rng_seed' = s2
               /\ image = Add64(ShiftLeft32(high), SignExtend32(low))
               /\ low[4] >= 128 => Add64(image, <<0, 0, 0, 0, 1, 0, 0, 0>>) = combined
               /\ low[4] < 128 => image = combined
               /\ IF rng_long'[1].negative
                  THEN /\ rng_long'[1].magnitude # NatBytes(0)
                       /\ \/ rng_long'[1].magnitude[8] < 128
                          \/ rng_long'[1].magnitude = <<0, 0, 0, 0, 0, 0, 0, 128>>
                  ELSE rng_long'[1].magnitude[8] < 128]_vars

\* the second call of a source returned a negative long whose low word has its top bit set
C27_Witness ==
    /\ rng_calls = 2
    /\ rng_long # None
    /\ rng_long[1].negative
    /\ LongImage(rng_long[1])[4] >= 128

(***************************************************************************)
(* Properties of a spawn request                                           *)
(***************************************************************************)
\* the list holds an entry with a count limit that is not used up
HasCapped(weights) ==
    \E i \in 1..Len(weights) :
        weights[i].max_place_count > 0 /\ weights[i].place_count < weights[i].max_place_count

\* the step appends nothing to pieces, or one BridgeEndFiller
FillerOrNothing ==
    \/ pieces' = pieces
    \/ /\ Len(pieces') = Len(pieces) + 1
       /\ SubSeq(pieces', 1, Len(pieces)) = pieces
       /\ pieces'[Len(pieces')].piece_type = "BridgeEndFiller"

\* C28: a spawn request whose child depth exceeds 30, or whose catalogue holds no entry with
\* max_place_count > 0 and place_count < max_place_count, draws no next_int(total) and yields
\* a BridgeEndFiller or nothing: it returns in one step that leaves the random source alone,
\* so no weighted piece is placed from a catalogue whose capped entries are used up, not even
\* one of its unlimited entries
C28_NoDraw ==
    [][(pc = "loop" /\ (request.depth > MAX_DEPTH \/ ~HasCapped(Weights))) =>
           /\ random' = random
           /\ FillerOrNothing
           /\ pc' # "loop"]_vars

\* a request within the depth cap meets a catalogue that has unlimited entries left and no
\* capped entry
C28_Witness ==
    /\ pc = "loop"
    /\ request.depth <= MAX_DEPTH
    /\ Weights # <<>>
    /\ ~HasCapped(Weights)
    /\ \E i \in 1..Len(Weights) : Weights[i].max_place_count = 0 /\ Weights[i].weight > 0

\* the step appends a piece selected from a weight list
WeightedPlacement ==
    /\ pc = "loop"
    /\ Len(pieces') = Len(pieces) + 1
    /\ pieces'[Len(pieces')].piece_type # "BridgeEndFiller"

\* C29: a spawn request that ends in the filler fallback or yields no piece leaves both weight
\* lists (their entries and every place_count) and the last-placed tracker as they were: only
\* the step that appends a weighted piece changes them, and it sets the tracker to the kind
\* placed and changes the list the kind was selected from
C29_TrackersKept ==
    [][/\ ~WeightedPlacement =>
             /\ bridge_weights' = bridge_weights
             /\ castle_weights' = castle_weights
             /\ previous_piece' = previous_piece
       /\ WeightedPlacement =>
             /\ previous_piece' = pieces'[Len(pieces')].piece_type
             /\ IF request.is_castle
                THEN castle_weights' # castle_weights /\ bridge_weights' = bridge_weights
                ELSE bridge_weights' # bridge_weights /\ castle_weights' = castle_weights
      ]_vars

\* five attempts of a request have failed after a weighted piece was placed earlier
C29_Witness ==
    /\ pc = "loop"
    /\ attempts = 5
    /\ previous_piece # "None"
    /\ Len(pieces) >= 2

\* the point (x, z) lies one block outside box on the face towards direction
OneOutside(box, direction, x, z) ==
    CASE direction = "NORTH" -> z = box.min_z - 1
      [] direction = "SOUTH" -> z = box.max_z + 1
      [] direction = "WEST" -> x = box.min_x - 1
      [] direction = "EAST" -> x = box.max_x + 1

\* C30: for every direction D of the parent, a forward child has direction D, a left child
\* has direction West when D is North or South and North when D is West or East, a right
\* child has direction East when D is North or South and South when D is West or East, and
\* the origin of the request lies one block outside the parent's box on the face the child
\* direction points to, never inside the box
C30_ChildRequest ==
    [][pc = "child" =>
           LET side == Head(calls).side
               D == pieces[parent].direction
               box == pieces[parent].bounding_box
           IN  /\ side = "forward" => request'.direction = D
               /\ side = "left" =>
                     request'.direction = IF D \in {"NORTH", "SOUTH"} THEN "WEST" ELSE "NORTH"
               /\ side = "right" =>
                     request'.direction = IF D \in {"NORTH", "SOUTH"} THEN "EAST" ELSE "SOUTH"
               /\ OneOutside(box, request'.direction, request'.x, request'.z)
               /\ ~(/\ box.min_x <= request'.x /\ request'.x <= box.max_x
                    /\ box.min_z <= request'.z /\ request'.z <= box.max_z)]_vars

\* the request of a right child of a parent facing East
C30_Witness ==
    /\ pc = "request"
    /\ pieces[parent].direction = "EAST"
    /\ request.direction = "SOUTH"
    /\ request.z = pieces[parent].bounding_box.max_z + 1

(***************************************************************************)
(* Properties of the children of CastleCorridorTBalconyPiece               *)
(***************************************************************************)
\* the request of a child of a CastleCorridorTBalconyPiece has been aborted by the distance
\* limit, its next_int(8) drawn
C31_Witness ==
    /\ pc = "request"
    /\ pieces[parent].piece_type = "CastleCorridorTBalconyPiece"
    /\ OutOfRange(request.x, request.z)

\* C31: the children of a CastleCorridorTBalconyPiece consume the random source in this
\* order: next_int(8) for the left request, the draws of the left request, next_int(8) for
\* the right request, the draws of the right request. Each next_int(8) is drawn when its call
\* is made, before the distance limit is tested, so it is drawn for an aborted request too;
\* the calls of every other kind draw nothing, and an aborted request draws nothing
C31_DrawOrder ==
    [][/\ (pc = "child" /\ pieces[parent].piece_type = "CastleCorridorTBalconyPiece") =>
             /\ Head(calls).side = (IF Len(calls) = 2 THEN "left" ELSE "right")
             /\ Len(calls) \in {1, 2}
             /\ random' = next_int(random, 8)[2]
             /\ request'.is_castle = (next_int(random, 8)[1] > 0)
             /\ pc' = "request"
             /\ calls' = Tail(calls)
       /\ (pc = "child" /\ pieces[parent].piece_type # "CastleCorridorTBalconyPiece") =>
             random' = random
       /\ pc = "request" =>
             /\ random' = random
             /\ OutOfRange(request.x, request.z) =>
                   /\ pieces' = pieces
                   /\ pc' \in {"child", "pop"}
                   /\ calls' = calls
       /\ (pc = "loop" /\ random' # random) =>
             /\ random' = next_int(random, total_weight)[2]
             /\ calls' = calls
      ]_vars

(***************************************************************************)
(* Properties of the piece counts                                          *)
(***************************************************************************)
\* the number of placed pieces of a kind
Placed(kind) == Cardinality({i \in 1..Len(pieces) : pieces[i].piece_type = kind})

\* the kind of table[k] is placed at most max_place_count times, and as often as the
\* place_count of its entry in weights says; an entry that left the list has reached its cap
CountsMatch(table, weights) ==
    \A k \in 1..Len(table) :
        table[k].max_place_count > 0 =>
            /\ Placed(table[k].piece_type) <= table[k].max_place_count
            /\ \A i \in 1..Len(weights) :
                  weights[i].piece_type = table[k].piece_type =>
                      weights[i].place_count = Placed(table[k].piece_type)
            /\ (\A i \in 1..Len(weights) : weights[i].piece_type # table[k].piece_type) =>
                  Placed(table[k].piece_type) = table[k].max_place_count

\* C32: at every point of a run, the number of placed pieces of each kind whose weight entry
\* has max_place_count > 0 is at most that cap and equals the place_count of the entry (at
\* most 4 BridgeCrossing and 1 CastleEntrance); once generate() has placed the start piece
\* there is exactly one StartPiece, the first of pieces; get_bridge_crossings returns at most
\* 5 pieces
C32_Counts ==
    /\ CountsMatch(BRIDGE_PIECE_WEIGHTS, bridge_weights)
    /\ CountsMatch(CASTLE_PIECE_WEIGHTS, castle_weights)
    /\ Placed("BridgeCrossing") <= 4
    /\ Placed("CastleEntrance") <= 1
    /\ pc # "generate" =>
          {i \in 1..Len(pieces) : pieces[i].piece_type = "StartPiece"} = {1}
    /\ pc = "generate" => pieces = <<>>
    /\ Len(get_bridge_crossings(pieces)) <= 5

\* a finished run with four BridgeCrossing pieces and its CastleEntrance: get_bridge_crossings
\* returns five pieces
C32_Witness ==
    /\ pc = "done"
    /\ Placed("BridgeCrossing") = 4
    /\ Placed("CastleEntrance") = 1
    /\ Len(get_bridge_crossings(pieces)) = 5

(***************************************************************************)
(* Properties of the crossings of a generator run                          *)
(***************************************************************************)
\* C33: the crossings of a generator run handed to the detector are at most five pieces of
\* 19 x 19 footprint, no two of which intersect, and find_quad_crossings returns at most one
\* cluster for them
C33_OneCluster ==
    detector_pc # "none" =>
        /\ Len(crossings) <= 5
        /\ SeparateCrossings
        /\ Len(quad_crossings) <= 1

\* find_quad_crossings has returned one cluster for the five crossings of a run
C33_Witness ==
    /\ detector_pc = "returned"
    /\ detector_objects = pieces
    /\ Len(crossings) = 5
    /\ Len(quad_crossings) = 1

\* the regions the windows touch, and the ring of regions around them
NearRegions == {r \in Regions : -3 <= r /\ r <= 2}

\* region (rx, rz) is one of those find_fortresses_in_range scans
Scanned(rx, rz) ==
    /\ min_region_x <= rx /\ rx <= max_region_x
    /\ min_region_z <= rz /\ rz <= max_region_z

\* C34: the region range find_fortresses_in_range scans is complete: at the head of the
\* region loops and from then on (the arguments do not change), no region outside
\* [floor((c - r)/27), floor((c + r)/27)] on either axis has its candidate chunk within the
\* radius of the center on both axes, and the list returned holds every candidate of any
\* region that lies in the window and classifies as Fortress
C34_RangeComplete ==
    /\ (locator_pc = "scan" /\ region_x = min_region_x /\ region_z = min_region_z) =>
          /\ radius_chunks >= 0
          /\ \A rx, rz \in NearRegions :
                InWindow(Candidate(rx, rz), center_chunk_x, center_chunk_z, radius_chunks)
                    => Scanned(rx, rz)
    /\ (locator_pc = "idle" /\ returned.call = "find_fortresses_in_range") =>
          \A rx, rz \in NearRegions :
              LET chunk == Candidate(rx, rz)
              IN  (/\ InWindow(chunk, returned.args[1], returned.args[2], returned.args[3])
                   /\ is_fortress_at_chunk(locator_random, world_seed, chunk[1],
                                           chunk[2])[1])
                      => \E k \in 1..Len(returned.value) : returned.value[k] = chunk

\* a scan whose range starts at a negative region, the candidate of which lies in the window
C34_Witness ==
    /\ locator_pc = "scan"
    /\ min_region_x < 0
    /\ InWindow(Candidate(min_region_x, min_region_z), center_chunk_x, center_chunk_z,
                radius_chunks)
    /\ \E rx \in NearRegions : rx < min_region_x

\* C35: next_int(bound) with bound >= 1 returns, from every RNG state, a value v with
\* 0 <= v < bound and does not raise, on the power-of-two path (bounds 1, 4, 8) and on the
\* modulo path (bounds 5, 23, 100); hence the index drawn at the head of the pending loop is
\* a position of pending_children, and the target drawn in the attempt loop, below
\* total_weight = the sum of the weights of the list walked, makes the walk stop at an entry of
\* the list.
C35_DrawInRange ==
    /\ \A bound \in {b \in RngBounds : b >= 1} :
          Let(next_int(random, bound), LAMBDA drawn :
              ~drawn[3] /\ 0 <= drawn[1] /\ drawn[1] < bound)
    /\ (pc = "pop" /\ pending_loop_condition) =>
          Let(next_int(random, Len(pending_children)), LAMBDA drawn :
              ~drawn[3] /\ 0 <= drawn[1] /\ drawn[1] < Len(pending_children))
    /\ (pc = "loop" /\ attempt_loop_condition) =>
          /\ total_weight = SumWeights(Weights, 1)
          /\ Let(next_int(random, total_weight), LAMBDA drawn :
                 /\ ~drawn[3] /\ 0 <= drawn[1] /\ drawn[1] < total_weight
                 /\ SelectWeight(Weights, drawn[1], 1) \in 1..Len(Weights))
    /\ pc # "ValueError"

\* the last position of a pending list of three is drawn on the modulo path
C35_Witness ==
    /\ pc = "pop"
    /\ Len(pending_children) = 3
    /\ next_int(random, 3)[1] = 2
====
